---- MODULE Spec2Model ----
\* Database access layer of the VPP FastAPI service (src/utils/db.py), the SQL
\* statements of src/models.py it is used with, and the lifecycle hooks of
\* src/main.py.  Caller threads run execute_query / execute_batch against one
\* PostgreSQL store through a psycopg2 ThreadedConnectionPool.
EXTENDS Integers, Sequences, FiniteSets, TLC

\* ---------------------------------------------------------------- bounds
MaxConn   == 2      \* maxconn of the pool (20 in the deployment)
MaxPools  == 2      \* pools that are ever constructed
MaxBatch  == 2      \* rows of one data_list
MaxClock  == 3      \* transaction start times the server hands out

Threads     == {"t1", "t2", "t3"}        \* request threads of the server
Callers     == {"t1", "t2"}              \* threads that carry requests, unless stated
SolarKeys   == {"s1", "s2", "s3", "s4"}  \* (site_id, datetime) of solar_data
LoadKeys    == {"l1", "l2"}              \* (site_id, datetime) of load_data
ReserveKeys == {"r1", "r2", "r3", "r4"}  \* (tran_date, tran_hour) of taipower_reserve_data
Keys        == SolarKeys \cup LoadKeys \cup ReserveKeys
HotKeys     == {"s1", "s2", "r1", "r2"}  \* keys every caller may use
Payloads    == {1, 2}                    \* values of the non-key columns
Pools       == 1..MaxPools
ConnIdx     == 1..MaxConn

\* Python's None is written 0: no pool, no row, nothing returned.
NoConn == [pool |-> 0, idx |-> 0]

\* Statements handed to the executors.
\*   INSERT  a plain INSERT INTO solar_data (no ON CONFLICT clause)
\*   IGNORE  SolarDataModel.INSERT_SQL / LoadDataModel.INSERT_SQL
\*   UPSERT  TaipowerReserveModel.UPSERT_SQL
\*   SELECT  SELECT * FROM solar_data WHERE key = %s
\*   HISTORY SolarDataModel.SELECT_HISTORY_SQL over a range that holds every row
Statements    == {"INSERT", "IGNORE", "UPSERT", "SELECT", "HISTORY"}
Writes        == {"INSERT", "IGNORE", "UPSERT"}
SolarWrites   == {"INSERT", "IGNORE"}
SolarStmts    == {"INSERT", "IGNORE", "SELECT"}
ReserveWrites == {"UPSERT"}
Reads         == {"SELECT", "HISTORY"}
\* fetch / fetch_one of execute_query: neither, fetch_one, fetch, both
Modes         == {"none", "one", "many", "both"}

TableKeys(s) == IF s = "UPSERT" THEN ReserveKeys ELSE SolarKeys

\* A parameter tuple: the key columns, the remaining columns, and whether the
\* server rejects the values (NUMERIC(10,2) overflow: psycopg2.DataError).
Rows(s, K) == [k : TableKeys(s) \cap K, p : Payloads, bad : {FALSE}]
                 \cup [k : TableKeys(s) \cap K, p : {1}, bad : {TRUE}]
NoRow      == [k |-> "s1", p |-> 0, bad |-> FALSE]

\* Rows of table stu (device_id, value, timestamp); the table has no
\* uniqueness constraint.
Samples == {"x1", "x2"}

\* An optional query parameter: absent (None), or the string that was sent.
Absent  == [some |-> FALSE, v |-> ""]
Sent(s) == [some |-> TRUE, v |-> s]

\* What a route handler answers.
\*   ep       the route
\*   arg      its site_id or date parameter
\*   status   the HTTP status code
\*   error    the exception execute_query raised, "none" if it raised none
\*   queries  the execute_query calls the handler made
\*   date     the characters of the date the answer names
\*   body     the rows of the answer
Response(ep, arg, status, error, queries, date, body) ==
    [ep |-> ep, arg |-> arg, status |-> status, error |-> error,
     queries |-> queries, date |-> date, body |-> body]

NoResp == Response("none", Absent, 0, "none", 0, <<>>, <<>>)

\* The rate limiter of main.py.  Time is counted in thirds of the window.
MaxPerMinute == 2   \* requests_per_minute (30 in the deployment)
Window       == 3   \* the 60 seconds of line 36
MaxTime      == 4   \* the latest time.time()
MaxCalls     == 5   \* is_allowed calls of one run

RateKeys == {"10.42.0.1:/api/upload", "10.42.0.2:/api/upload"}

\* The locals of is_allowed: where it is, now, key and the value returned.
NoCall == [at |-> "none", now |-> 0, key |-> "", ret |-> FALSE]

\* The locals of test_routes() before it is called: where it is,
\* registered_routes, the route i and the methods of it still to visit, the
\* expected endpoint j, the registered route k and the category c of the last
\* loop, is_expected, the counters, the endpoints reported as extra, and the
\* value returned.
NoFrame ==
    [at |-> "none", registered_routes |-> <<>>, i |-> 0, methods |-> {}, j |-> 0,
     k |-> 0, c |-> 0, is_expected |-> FALSE, total_expected |-> 0,
     total_found |-> 0, extra |-> <<>>, result |-> FALSE]

VARIABLES
    lifecycle,      \* "boot" | "serving" | "stopped"   (hosting process, main.py)
    db_pool,        \* global db_pool: 0 (None) or the id of the pool it refers to
    nPools,         \* pools constructed so far
    closed,         \* pools on which closeall() has run
    used,           \* used[p]: connection slots of pool p that are checked out
    store,          \* committed rows: store[k] = [p |-> payload or 0, ts |-> updated_at]
    clock,          \* next transaction start time of the server
    pc,             \* position of each caller
    op,             \* "query" | "batch" : the executor a caller is in
    stmt,           \* argument query
    mode,           \* arguments fetch, fetch_one
    cur,            \* argument params of execute_query; the tuple that made execute_batch raise
    nRows,          \* tuples of data_list taken so far
    conn,           \* the connection a caller holds
    inTx,           \* the held connection has an open transaction
    txStart,        \* start time of that transaction (CURRENT_TIMESTAMP)
    pend,           \* pend[t][k]: uncommitted write of the open transaction (0: none)
    success_count,  \* execute_batch's counter
    exc,            \* exception leaving the call: "none" | "DataError" | ...
    result,         \* value returned by the call
    commits,        \* conn.commit() calls of the call
    rollbacks,      \* conn.rollback() calls of the call
    applied,        \* applied[t][k]: payload of a tuple of this call executed with rowcount 1
    durable,        \* keys this call made durable at its commit
    logged,         \* logged[t]: records the call has written with logger.error
    stu,            \* committed rows of table stu: stu[x] = number of rows with content x
    resp,           \* the HTTP response of the latest request of a route handler
    in_row,         \* argument of the latest row_to_dict call
    normalized,     \* what that call returned
    main_pc,        \* the line of main.py the import of module main is at
    routers,        \* routers[r]: router.routes of module routers.r
    app_routes,     \* app.routes
    tr,             \* the frame of test_routes()
    time,           \* what time.time() returns
    requests,       \* rate_limiter.requests: the recorded request times of each key
    lock,           \* rate_limiter.lock: the thread that holds it, or "none"
    rl,             \* rl[t]: the frame of is_allowed in thread t
    admitted,       \* admitted[key][ts]: calls with timestamp ts answered True
    calls           \* is_allowed calls made so far

poolVars == <<lifecycle, db_pool, nPools, closed, used>>
dbVars   == <<store, clock>>
callVars == <<pc, op, stmt, mode, cur, nRows, conn, inTx, txStart, pend,
              success_count, exc, result>>
histVars == <<commits, rollbacks, applied, durable>>
appVars  == <<main_pc, routers, app_routes, tr>>
limVars  == <<time, requests, lock, rl, admitted, calls>>
ioVars   == <<stu, resp, in_row, normalized, appVars, limVars>>
vars     == <<poolVars, dbVars, callVars, histVars, logged, ioVars>>

NoPend == [k \in Keys |-> 0]
Stored == {k \in Keys : store[k].p # 0}

Init ==
    /\ lifecycle = "boot"
    /\ db_pool = 0
    /\ nPools = 0
    /\ closed = {}
    /\ used = [p \in Pools |-> {}]
    /\ store = [k \in Keys |-> [p |-> 0, ts |-> 0]]
    /\ clock = 1
    /\ pc = [t \in Threads |-> "idle"]
    /\ op = [t \in Threads |-> "none"]
    /\ stmt = [t \in Threads |-> "none"]
    /\ mode = [t \in Threads |-> "none"]
    /\ cur = [t \in Threads |-> NoRow]
    /\ nRows = [t \in Threads |-> 0]
    /\ conn = [t \in Threads |-> NoConn]
    /\ inTx = [t \in Threads |-> FALSE]
    /\ txStart = [t \in Threads |-> 0]
    /\ pend = [t \in Threads |-> NoPend]
    /\ success_count = [t \in Threads |-> 0]
    /\ exc = [t \in Threads |-> "none"]
    /\ result = [t \in Threads |-> 0]
    /\ commits = [t \in Threads |-> 0]
    /\ rollbacks = [t \in Threads |-> 0]
    /\ applied = [t \in Threads |-> NoPend]
    /\ durable = [t \in Threads |-> {}]
    /\ logged = [t \in Threads |-> {}]
    /\ stu = [x \in Samples |-> 0]
    /\ resp = NoResp
    /\ in_row = [null |-> TRUE, items |-> <<>>]
    /\ normalized = [null |-> TRUE, items |-> <<>>]
    /\ main_pc = 7
    /\ routers = [r \in {"vpp", "taipower", "upload"} |-> <<>>]
    /\ app_routes = <<>>
    /\ tr = NoFrame
    /\ time = 0
    /\ requests = [key \in RateKeys |-> <<>>]
    /\ lock = "none"
    /\ rl = [t \in Threads |-> NoCall]
    /\ admitted = [key \in RateKeys |-> [ts \in 0..MaxTime |-> 0]]
    /\ calls = 0

\* ------------------------------------------------- PostgreSQL semantics
\* What the transaction of caller t reads for key k: its own uncommitted
\* write, else the committed row (READ COMMITTED).
Visible(t, k) == IF pend[t][k] # 0 THEN pend[t][k] ELSE store[k].p

\* Another open transaction holds an uncommitted write of key k: a write of
\* the same key waits for that transaction to end.
LockedByOther(t, k) == \E u \in Threads \ {t} : pend[u][k] # 0

Blocks(t, s, row) == s \in Writes /\ ~row.bad /\ LockedByOther(t, row.k)

\* Variant: the conflict clause updates the stored row (DO UPDATE).
InsertIgnore_update(row, vis) == [res |-> "ok", rowcount |-> 1, write |-> row.p]

\* Variant: no conflict clause, the UNIQUE constraint raises.
InsertIgnore_raises(row, vis) ==
    IF vis # 0 THEN [res |-> "Integrity", rowcount |-> 0, write |-> 0]
               ELSE [res |-> "ok", rowcount |-> 1, write |-> row.p]

\* ON CONFLICT (site_id, datetime) DO NOTHING
InsertIgnore(row, vis) ==
    IF vis # 0 THEN [res |-> "ok", rowcount |-> 0, write |-> 0]
               ELSE [res |-> "ok", rowcount |-> 1, write |-> row.p]

\* ON CONFLICT (tran_date, tran_hour) DO UPDATE SET ... = EXCLUDED. ...
Upsert(row, vis) == [res |-> "ok", rowcount |-> 1, write |-> row.p]

\* INSERT without a conflict clause: the UNIQUE constraint raises.
PlainInsert(row, vis) ==
    IF vis # 0 THEN [res |-> "Integrity", rowcount |-> 0, write |-> 0]
               ELSE [res |-> "ok", rowcount |-> 1, write |-> row.p]

\* The outcome of one cursor.execute(query, params), given what is visible.
StmtOutcome(s, row, vis) ==
    IF row.bad THEN [res |-> "DataError", rowcount |-> 0, write |-> 0]
    ELSE IF s = "INSERT" THEN PlainInsert(row, vis)
    ELSE IF s = "IGNORE" THEN InsertIgnore(row, vis)
    ELSE IF s = "UPSERT" THEN Upsert(row, vis)
    ELSE [res |-> "ok", rowcount |-> (IF vis # 0 THEN 1 ELSE 0), write |-> 0]

\* The site and the time of a solar_data key.
SiteOf(k) == IF k \in {"s1", "s2", "l1"} THEN "north" ELSE "south"
TimeOf(k) == IF k \in {"s1", "s3", "l1", "l2"} THEN 1 ELSE 2

\* WHERE site_id = %s ... ORDER BY datetime DESC: the keys of a site, latest first.
SiteKeysDesc(site) ==
    IF site = "north" THEN <<"s2", "s1">>
    ELSE IF site = "south" THEN <<"s4", "s3">>
    ELSE <<>>

\* The rows a statement returns to the cursor of caller t, in order.
ResultSet(t, s, prm) ==
    LET Seen(k) == Visible(t, k) # 0
        RowAt(k) == [k |-> k, p |-> Visible(t, k)]
        keys == IF s = "HISTORY" THEN SelectSeq(SiteKeysDesc(SiteOf(prm.k)), Seen)
                ELSE IF s = "SELECT" /\ Seen(prm.k) THEN <<prm.k>>
                ELSE <<>>
    IN [i \in 1..Len(keys) |-> RowAt(keys[i])]

\* What execute_query returns: None, one row (fetchone) or a list (fetchall).
PyResult(kind, rows) == [kind |-> kind, rows |-> rows]
ResultNone == PyResult("None", <<>>)

fetchall(rs) == PyResult("list", rs)
fetchone(rs) == IF rs = <<>> THEN ResultNone ELSE PyResult("row", <<Head(rs)>>)

\* Variant: fetch_one is tested before fetch.
Fetch_one_first(m, rs) ==
    IF m \in {"one", "both"} THEN fetchone(rs)
    ELSE IF m = "many" THEN fetchall(rs)
    ELSE ResultNone

\* Lines 93-98 of execute_query.
Fetch(m, rs) ==
    IF m \in {"many", "both"} THEN fetchall(rs)
    ELSE IF m = "one" THEN fetchone(rs)
    ELSE ResultNone

\* updated_at = CURRENT_TIMESTAMP: the start time of the transaction.
CommittedRow(t, k) ==
    [p |-> pend[t][k], ts |-> IF k \in ReserveKeys THEN txStart[t] ELSE 0]

\* The stored rows once the transaction of t is committed.
AfterCommit(t) ==
    [k \in Keys |-> IF pend[t][k] # 0 THEN CommittedRow(t, k) ELSE store[k]]

\* The first execute on a connection without an open transaction begins one,
\* and the server stamps it with a fresh start time.  Only UPSERT reads it.
Stamped(t) == ~inTx[t] /\ stmt[t] = "UPSERT"

BeginTx(t) ==
    /\ Stamped(t) => clock <= MaxClock
    /\ clock' = IF Stamped(t) THEN clock + 1 ELSE clock
    /\ txStart' = [txStart EXCEPT ![t] = IF inTx[t] THEN @
                                       ELSE IF Stamped(t) THEN clock ELSE 0]

\* conn.rollback()
Rollback(t) ==
    /\ pend' = [pend EXCEPT ![t] = NoPend]
    /\ inTx' = [inTx EXCEPT ![t] = FALSE]
    /\ rollbacks' = [rollbacks EXCEPT ![t] = @ + 1]

\* conn.commit()
Commit(t) ==
    /\ store' = AfterCommit(t)
    /\ durable' = [durable EXCEPT ![t] = {k \in Keys : pend[t][k] # 0}]
    /\ pend' = [pend EXCEPT ![t] = NoPend]
    /\ inTx' = [inTx EXCEPT ![t] = FALSE]
    /\ commits' = [commits EXCEPT ![t] = @ + 1]

\* ------------------------------------------------- pool lifecycle
init_db_pool ==
    /\ nPools < MaxPools
    /\ nPools' = nPools + 1
    /\ db_pool' = nPools + 1
    /\ UNCHANGED <<closed, used>>

\* Variant: closeall() is called without the test of db_pool.
CloseOutcome_unguarded ==
    IF db_pool = 0 THEN [closed |-> closed, err |-> "AttributeError"]
    ELSE IF db_pool \in closed THEN [closed |-> closed, err |-> "PoolError"]
    ELSE [closed |-> closed \cup {db_pool}, err |-> "none"]

\* Lines 44-45: nothing happens while db_pool is None; closeall() closes the
\* idle and the checked-out connections of the pool and marks it closed, and
\* raises PoolError on a pool that is closed already.
CloseOutcome ==
    IF db_pool = 0 THEN [closed |-> closed, err |-> "none"]
    ELSE IF db_pool \in closed THEN [closed |-> closed, err |-> "PoolError"]
    ELSE [closed |-> closed \cup {db_pool}, err |-> "none"]

\* Variant: the global is reset to None once the pool is closed.
close_db_pool_resets ==
    /\ closed' = CloseOutcome.closed
    /\ db_pool' = 0
    /\ UNCHANGED <<nPools, used>>

\* Lines 41-46: the global keeps naming the pool.
close_db_pool ==
    /\ closed' = CloseOutcome.closed
    /\ UNCHANGED <<db_pool, nPools, used>>

startup_event ==
    /\ lifecycle = "boot"
    /\ init_db_pool
    /\ lifecycle' = "serving"
    /\ UNCHANGED <<dbVars, callVars, histVars, logged, ioVars>>

\* The server runs the shutdown hook once the requests in flight have ended.
shutdown_event ==
    /\ lifecycle = "serving"
    /\ \A t \in Threads : pc[t] = "idle"
    /\ close_db_pool
    /\ lifecycle' = IF CloseOutcome.err = "none" THEN "stopped" ELSE "failed"
    /\ UNCHANGED <<dbVars, callVars, histVars, logged, ioVars>>

\* ------------------------------------------------- get_db_connection
\* Entry of a call: the statement is bound and line 59 tests the global.
Enter(t, o, s) ==
    /\ pc[t] = "idle"
    /\ op' = [op EXCEPT ![t] = o]
    /\ stmt' = [stmt EXCEPT ![t] = s]
    /\ pc' = [pc EXCEPT ![t] = IF db_pool = 0 THEN "init" ELSE "getconn"]
    /\ UNCHANGED <<poolVars, dbVars, mode, cur, nRows, conn, inTx, txStart, pend,
                   success_count, exc, result, histVars, logged, ioVars>>

call_execute_query(t, S) == \E s \in S : Enter(t, "query", s)

call_execute_batch(t, S) == \E s \in S : Enter(t, "batch", s)

\* close_db_pool called directly by a caller thread.
call_close_db_pool(t) ==
    /\ pc[t] = "idle"
    /\ close_db_pool
    /\ op' = [op EXCEPT ![t] = "close"]
    /\ exc' = [exc EXCEPT ![t] = CloseOutcome.err]
    /\ pc' = [pc EXCEPT ![t] = "done"]
    /\ UNCHANGED <<lifecycle, dbVars, stmt, mode, cur, nRows, conn, inTx, txStart, pend,
                   success_count, result, histVars, logged, ioVars>>

\* Variant: init_db_pool without its global statement; the pool it constructs
\* is bound to a local name.
lazy_init_local(t) ==
    /\ pc[t] = "init"
    /\ nPools < MaxPools
    /\ nPools' = nPools + 1
    /\ pc' = [pc EXCEPT ![t] = "getconn"]
    /\ UNCHANGED <<lifecycle, db_pool, closed, used, dbVars, op, stmt, mode, cur, nRows,
                   conn, inTx, txStart, pend, success_count, exc, result, histVars,
                   logged, ioVars>>

\* Line 61: the caller that found no pool constructs one.
lazy_init(t) ==
    /\ pc[t] = "init"
    /\ init_db_pool
    /\ pc' = [pc EXCEPT ![t] = "getconn"]
    /\ UNCHANGED <<lifecycle, dbVars, op, stmt, mode, cur, nRows, conn, inTx,
                   txStart, pend, success_count, exc, result, histVars, logged, ioVars>>

\* The records written with logger.error: who wrote it, the exception in the
\* message, and the statement and parameters in the message ("none", NoRow
\* when the message has none).
LogRecord(by, err, q, params) == [by |-> by, err |-> err, query |-> q, params |-> params]

\* Line 68: "取得資料庫連線失敗: {e}".
ConnLog(err) == LogRecord("get_db_connection", err, "none", NoRow)

\* The first statement of the with-block of each user of get_db_connection.
Body(o) == IF o = "query" THEN "q_exec" ELSE IF o = "batch" THEN "b_loop" ELSE "u_exec"

FreeIdx(p) == ConnIdx \ used[p]
LowestFree(p) == CHOOSE i \in FreeIdx(p) : \A j \in FreeIdx(p) : i <= j

\* Line 65: db_pool.getconn().  A closed or exhausted pool raises PoolError,
\* which lines 67-69 log and re-raise; conn is still None, so nothing is put back.
getconn(t) ==
    /\ pc[t] = "getconn"
    /\ IF db_pool \in closed \/ FreeIdx(db_pool) = {}
       THEN /\ exc' = [exc EXCEPT ![t] = "PoolError"]
            /\ logged' = [logged EXCEPT ![t] = @ \cup {ConnLog("PoolError")}]
            /\ pc' = [pc EXCEPT ![t] = "done"]
            /\ UNCHANGED <<used, conn>>
       ELSE /\ conn' = [conn EXCEPT ![t] = [pool |-> db_pool, idx |-> LowestFree(db_pool)]]
            /\ used' = [used EXCEPT ![db_pool] = @ \cup {LowestFree(db_pool)}]
            /\ pc' = [pc EXCEPT ![t] = Body(op[t])]
            /\ UNCHANGED <<exc, logged>>
    /\ UNCHANGED <<lifecycle, db_pool, nPools, closed, dbVars, op, stmt, mode, cur,
                   nRows, inTx, txStart, pend, success_count, result, histVars, ioVars>>

\* Variant: the connection is put back only when the body did not raise.
putconn_leaks_on_error(t) ==
    /\ pc[t] = "putconn"
    /\ used' = IF exc[t] = "none" THEN [used EXCEPT ![db_pool] = @ \ {conn[t].idx}]
               ELSE used
    /\ conn' = [conn EXCEPT ![t] = NoConn]
    /\ pend' = [pend EXCEPT ![t] = NoPend]
    /\ inTx' = [inTx EXCEPT ![t] = FALSE]
    /\ pc' = [pc EXCEPT ![t] = "done"]
    /\ logged' = [logged EXCEPT ![t] = IF exc[t] = "none" THEN @
                                       ELSE @ \cup {ConnLog(exc[t])}]
    /\ UNCHANGED <<lifecycle, db_pool, nPools, closed, dbVars, op, stmt, mode, cur,
                   nRows, txStart, success_count, exc, result, histVars, ioVars>>

\* Lines 67-72.  An exception of the with-block passes through the except
\* clause, which logs it; then the finally clause: putconn on the pool the
\* global now names.
\* A connection that pool did not hand out, or a closed pool, raises PoolError
\* and the connection stays checked out of its own pool.  The pool rolls back
\* a connection that comes back inside a transaction.
putconn(t) ==
    /\ pc[t] = "putconn"
    /\ IF conn[t].pool = db_pool /\ db_pool \notin closed
       THEN /\ used' = [used EXCEPT ![db_pool] = @ \ {conn[t].idx}]
            /\ exc' = exc
       ELSE /\ used' = used
            /\ exc' = [exc EXCEPT ![t] = "PoolError"]
    /\ conn' = [conn EXCEPT ![t] = NoConn]
    /\ pend' = [pend EXCEPT ![t] = NoPend]
    /\ inTx' = [inTx EXCEPT ![t] = FALSE]
    /\ pc' = [pc EXCEPT ![t] = "done"]
    /\ logged' = [logged EXCEPT ![t] = IF exc[t] = "none" THEN @
                                       ELSE @ \cup {ConnLog(exc[t])}]
    /\ UNCHANGED <<lifecycle, db_pool, nPools, closed, dbVars, op, stmt, mode, cur,
                   nRows, txStart, success_count, result, histVars, ioVars>>

\* The frame of a call that has returned or raised is dropped.
DropFrame(t) ==
    /\ pc[t] = "done"
    /\ pc' = [pc EXCEPT ![t] = "idle"]
    /\ op' = [op EXCEPT ![t] = "none"]
    /\ stmt' = [stmt EXCEPT ![t] = "none"]
    /\ mode' = [mode EXCEPT ![t] = "none"]
    /\ cur' = [cur EXCEPT ![t] = NoRow]
    /\ nRows' = [nRows EXCEPT ![t] = 0]
    /\ txStart' = [txStart EXCEPT ![t] = 0]
    /\ success_count' = [success_count EXCEPT ![t] = 0]
    /\ exc' = [exc EXCEPT ![t] = "none"]
    /\ result' = [result EXCEPT ![t] = 0]
    /\ commits' = [commits EXCEPT ![t] = 0]
    /\ rollbacks' = [rollbacks EXCEPT ![t] = 0]
    /\ applied' = [applied EXCEPT ![t] = NoPend]
    /\ durable' = [durable EXCEPT ![t] = {}]
    /\ logged' = [logged EXCEPT ![t] = {}]
    /\ UNCHANGED <<poolVars, dbVars, conn, inTx, pend>>

\* execute_query, execute_batch or close_db_pool has returned or raised.
return(t) == DropFrame(t) /\ UNCHANGED ioVars


\* ------------------------------------------------- execute_query
\* cursor.execute succeeded with outcome o: the write, if any, is pending.
Executed(t, row, o) ==
    /\ pend' = [pend EXCEPT ![t][row.k] = IF o.write # 0 THEN o.write ELSE @]
    /\ inTx' = [inTx EXCEPT ![t] = TRUE]
    /\ applied' = [applied EXCEPT ![t][row.k] = IF o.write # 0 THEN o.write ELSE @]
    /\ UNCHANGED <<store, commits, rollbacks, durable, exc, logged>>

\* Variant: the except clause re-raises without conn.rollback().
QueryFailed_no_rollback(t, err) ==
    /\ exc' = [exc EXCEPT ![t] = err]
    /\ pc' = [pc EXCEPT ![t] = "putconn"]
    /\ UNCHANGED <<store, commits, durable, applied, result, pend, inTx, rollbacks, logged>>

\* The except clause of lines 103-106: rollback, log, re-raise.
QueryFailed(t, err) ==
    /\ Rollback(t)
    /\ logged' = [logged EXCEPT ![t] =
                     @ \cup {LogRecord("execute_query", err, stmt[t], cur'[t])}]
    /\ exc' = [exc EXCEPT ![t] = err]
    /\ pc' = [pc EXCEPT ![t] = "putconn"]
    /\ UNCHANGED <<store, commits, durable, applied, result>>

\* Lines 91-98 with params over the keys K and fetch flags in M.  A statement
\* that waits for a row lock past statement_timeout is cancelled
\* (OperationalError); a fetch after a statement that returns no rows raises
\* ProgrammingError.
query_execute(t, K, M) ==
    /\ pc[t] = "q_exec"
    /\ BeginTx(t)
    /\ \E m \in M : \E row \in Rows(stmt[t], K) :
         LET o   == StmtOutcome(stmt[t], row, Visible(t, row.k))
             err == IF Blocks(t, stmt[t], row) THEN "OperationalError"
                    ELSE IF o.res # "ok" THEN o.res
                    ELSE IF stmt[t] \in Writes /\ m # "none" THEN "ProgrammingError"
                    ELSE "none"
         IN /\ mode' = [mode EXCEPT ![t] = m]
            /\ cur' = [cur EXCEPT ![t] = row]
            /\ IF err = "none"
               THEN /\ Executed(t, row, o)
                    /\ result' = [result EXCEPT ![t] =
                                    Fetch(m, ResultSet(t, stmt[t], row))]
                    /\ pc' = [pc EXCEPT ![t] = "q_commit"]
               ELSE QueryFailed(t, err)
    /\ UNCHANGED <<poolVars, op, stmt, nRows, conn, success_count, ioVars>>

\* Lines 100-101.
query_commit(t) ==
    /\ pc[t] = "q_commit"
    /\ Commit(t)
    /\ pc' = [pc EXCEPT ![t] = "putconn"]
    /\ UNCHANGED <<poolVars, clock, op, stmt, mode, cur, nRows, conn, txStart,
                   success_count, exc, result, rollbacks, applied, logged, ioVars>>

\* ------------------------------------------------- execute_batch
\* Lines 132-135: the IntegrityError handler.
BatchIntegrity(t) ==
    /\ Rollback(t)
    /\ pc' = [pc EXCEPT ![t] = "b_loop"]
    /\ UNCHANGED <<store, commits, durable, applied, success_count, exc, logged>>

\* Variant: the handler commits what the batch has done so far, then re-raises.
BatchFailed_commits(t, err) ==
    /\ Commit(t)
    /\ exc' = [exc EXCEPT ![t] = err]
    /\ pc' = [pc EXCEPT ![t] = "putconn"]
    /\ UNCHANGED <<rollbacks, applied, success_count, logged>>

\* Lines 140-143: the handler of every other exception.  Its message,
\* "批次執行失敗: {e}", holds neither the statement nor the tuple.
BatchFailed(t, err) ==
    /\ Rollback(t)
    /\ logged' = [logged EXCEPT ![t] =
                     @ \cup {LogRecord("execute_batch", err, "none", NoRow)}]
    /\ exc' = [exc EXCEPT ![t] = err]
    /\ pc' = [pc EXCEPT ![t] = "putconn"]
    /\ UNCHANGED <<store, commits, durable, applied, success_count>>

\* Lines 128-135 for the next tuple of data_list, drawn from the rows R.
batch_row(t, R) ==
    /\ pc[t] = "b_loop"
    /\ nRows[t] < MaxBatch
    /\ BeginTx(t)
    /\ nRows' = [nRows EXCEPT ![t] = @ + 1]
    /\ \E data \in R :
         LET o == StmtOutcome(stmt[t], data, Visible(t, data.k))
             raised == Blocks(t, stmt[t], data) \/ o.res \notin {"ok", "Integrity"}
         IN /\ cur' = [cur EXCEPT ![t] = IF raised THEN data ELSE @]
            /\ IF Blocks(t, stmt[t], data) THEN BatchFailed(t, "OperationalError")
               ELSE IF o.res = "ok"
               THEN /\ Executed(t, data, o)
                    /\ success_count' = [success_count EXCEPT ![t] = @ + o.rowcount]
                    /\ pc' = [pc EXCEPT ![t] = "b_loop"]
               ELSE IF o.res = "Integrity" THEN BatchIntegrity(t)
               ELSE BatchFailed(t, o.res)
    /\ UNCHANGED <<poolVars, op, stmt, mode, conn, result, ioVars>>

\* Variant: the count is returned without conn.commit().
batch_commit_missing(t) ==
    /\ pc[t] = "b_loop"
    /\ result' = [result EXCEPT ![t] = success_count[t]]
    /\ pc' = [pc EXCEPT ![t] = "putconn"]
    /\ UNCHANGED <<poolVars, dbVars, op, stmt, mode, cur, nRows, conn, inTx, txStart,
                   pend, success_count, exc, histVars, logged, ioVars>>

\* Lines 137-138, once data_list is exhausted.
batch_commit(t) ==
    /\ pc[t] = "b_loop"
    /\ Commit(t)
    /\ result' = [result EXCEPT ![t] = success_count[t]]
    /\ pc' = [pc EXCEPT ![t] = "putconn"]
    /\ UNCHANGED <<poolVars, clock, op, stmt, mode, cur, nRows, conn, txStart,
                   success_count, exc, rollbacks, applied, logged, ioVars>>

\* ------------------------------------------------- the hosted service
\* Requests are served between the startup and the shutdown hook; this
\* specification uses the solar_data statements.
serve_query(t) == lifecycle = "serving" /\ call_execute_query(t, SolarStmts)
serve_batch(t) == lifecycle = "serving" /\ call_execute_batch(t, SolarWrites)

Next ==
    \/ startup_event
    \/ shutdown_event
    \/ \E t \in Callers :
         \/ serve_query(t)
         \/ serve_batch(t)
         \/ getconn(t)
         \/ query_execute(t, HotKeys, {"none", "one"})
         \/ query_commit(t)
         \/ batch_row(t, Rows(stmt[t], HotKeys))
         \/ batch_commit(t)
         \/ putconn(t)
         \/ return(t)

Spec == Init /\ [][Next]_vars


\* ------------------------------------------------- the reserve ingestion
\* The same service with callers that apply TaipowerReserveModel.UPSERT_SQL,
\* one tuple through execute_query or several through execute_batch.
reserve_query(t) == lifecycle = "serving" /\ call_execute_query(t, ReserveWrites)
reserve_batch(t) == lifecycle = "serving" /\ call_execute_batch(t, ReserveWrites)

NextReserve ==
    \/ startup_event
    \/ shutdown_event
    \/ \E t \in Callers :
         \/ reserve_query(t)
         \/ reserve_batch(t)
         \/ getconn(t)
         \/ query_execute(t, HotKeys, {"none"})
         \/ query_commit(t)
         \/ batch_row(t, Rows(stmt[t], HotKeys))
         \/ batch_commit(t)
         \/ putconn(t)
         \/ return(t)

SpecReserve == Init /\ [][NextReserve]_vars

\* ------------------------------------------------- disjoint batch inserts
\* Each caller runs one execute_batch, at the same time as the others, on keys
\* of its own that are not stored yet; every tuple is valid and no key occurs
\* twice in a batch.
Own(t) == IF t = "t1" THEN {"s1", "s2"} ELSE {"s3", "s4"}

OwnRows(t) == {r \in Rows(stmt[t], Own(t)) : ~r.bad /\ applied[t][r.k] = 0}

own_batch(t) == lifecycle = "serving" /\ call_execute_batch(t, SolarWrites)

NextDisjoint ==
    \/ startup_event
    \/ \E t \in Callers :
         \/ own_batch(t)
         \/ getconn(t)
         \/ batch_row(t, OwnRows(t))
         \/ batch_commit(t)
         \/ putconn(t)

SpecDisjoint == Init /\ [][NextDisjoint]_vars

\* ------------------------------------------------- use without the startup hook
\* A test or script imports utils.db and calls the executors directly: the
\* startup hook never runs and the first caller finds db_pool None.
script_query(t) == lifecycle = "boot" /\ call_execute_query(t, {"IGNORE", "SELECT"})
script_batch(t) == lifecycle = "boot" /\ call_execute_batch(t, {"IGNORE"})

NextLazy ==
    \E t \in Callers :
         \/ script_query(t)
         \/ script_batch(t)
         \/ lazy_init(t)
         \/ getconn(t)
         \/ query_execute(t, {"s1"}, {"none", "one"})
         \/ query_commit(t)
         \/ batch_row(t, Rows(stmt[t], {"s1", "s2"}))
         \/ batch_commit(t)
         \/ putconn(t)
         \/ return(t)

SpecLazy == Init /\ [][NextLazy]_vars

\* ------------------------------------------------- more requests than connections
\* The hosted service with one request thread more than the pool has
\* connections; every request is the read of get_solar_latest.
busy_query(t) == lifecycle = "serving" /\ call_execute_query(t, {"SELECT"})

NextSaturated ==
    \/ startup_event
    \/ \E t \in Threads :
         \/ busy_query(t)
         \/ getconn(t)
         \/ query_execute(t, {"s1"}, {"one"})
         \/ query_commit(t)
         \/ putconn(t)
         \/ return(t)

SpecSaturated == Init /\ [][NextSaturated]_vars

\* ------------------------------------------------- the lifecycle hooks
\* The hosted service, and before it a process that stops without having
\* started: close_db_pool runs while db_pool is still None.
boot_close(t) == lifecycle = "boot" /\ call_close_db_pool(t)

NextHooks ==
    \/ startup_event
    \/ shutdown_event
    \/ \E t \in Callers :
         \/ boot_close(t)
         \/ serve_query(t)
         \/ getconn(t)
         \/ query_execute(t, {"s1"}, {"none", "one"})
         \/ query_commit(t)
         \/ putconn(t)
         \/ return(t)

SpecHooks == Init /\ [][NextHooks]_vars

\* ------------------------------------------------- row_to_dict
\* A Python value of a result row: its type, its numeric content n and its text
\* s (a sequence of characters).
\*   None      n = <<>>                      s = <<>>
\*   date      n = <<year, month, day>>
\*   datetime  n = <<year, month, day, hour, minute, second, microsecond>>
\*   Decimal   n = <<unscaled, scale>>       the number unscaled / 10^scale
\*   int       n = <<i>>
\*   bool      n = <<0>> or <<1>>
\*   float     n = <<num, den>>              the number num / den
\*   str       n = <<>>                      s = the characters
Val(ty, n, s) == [ty |-> ty, n |-> n, s |-> s]

PyNone == Val("None", <<>>, <<>>)

RECURSIVE Pow10(_)
Pow10(k) == IF k = 0 THEN 1 ELSE 10 * Pow10(k - 1)

DigitChar(d) == <<"0", "1", "2", "3", "4", "5", "6", "7", "8", "9">>[d + 1]

\* n written with w digits, zero filled ("%02d", "%04d", "%06d").
Pad(n, w) == [i \in 1..w |-> DigitChar((n \div Pow10(w - i)) % 10)]

\* date.isoformat(): YYYY-MM-DD
DateIso(n) == Pad(n[1], 4) \o <<"-">> \o Pad(n[2], 2) \o <<"-">> \o Pad(n[3], 2)

\* time part of datetime.isoformat(): HH:MM:SS, and .ffffff when the
\* microsecond is not 0
TimeIso(n) ==
    Pad(n[4], 2) \o <<":">> \o Pad(n[5], 2) \o <<":">> \o Pad(n[6], 2)
        \o (IF n[7] = 0 THEN <<>> ELSE <<".">> \o Pad(n[7], 6))

\* value.isoformat() of a date or of a naive datetime (sep = "T")
isoformat(v) ==
    IF v.ty = "date" THEN Val("str", <<>>, DateIso(v.n))
    ELSE Val("str", <<>>, DateIso(v.n) \o <<"T">> \o TimeIso(v.n))

\* float(value) of a Decimal, an int, a bool or a float
float(v) ==
    IF v.ty = "Decimal" THEN Val("float", <<v.n[1], Pow10(v.n[2])>>, <<>>)
    ELSE IF v.ty = "float" THEN v
    ELSE Val("float", <<v.n[1], 1>>, <<>>)

\* hasattr(value, 'isoformat') and hasattr(value, '__float__')
HasIsoformat(v) == v.ty \in {"date", "datetime"}
HasFloat(v)     == v.ty \in {"Decimal", "int", "bool", "float"}

\* Variant: str(value) for temporal values, which separates date and time by
\* a blank.
NormalizeValue_str(v) ==
    IF v.ty = "date" THEN Val("str", <<>>, DateIso(v.n))
    ELSE IF v.ty = "datetime"
    THEN Val("str", <<>>, DateIso(v.n) \o <<" ">> \o TimeIso(v.n))
    ELSE IF HasFloat(v) THEN float(v)
    ELSE v

\* Lines 166-172: the branches of the loop body.
NormalizeValue(v) ==
    IF HasIsoformat(v) THEN isoformat(v)
    ELSE IF HasFloat(v) THEN float(v)
    ELSE v

\* A result row (RealDictRow): the columns in order, or None.
PyRow(items) == [null |-> FALSE, items |-> items]
NullRow      == [null |-> TRUE, items |-> <<>>]

\* Lines 160-174.
row_to_dict(r) ==
    IF r.null THEN NullRow
    ELSE PyRow([i \in 1..Len(r.items) |->
                  [col |-> r.items[i].col, val |-> NormalizeValue(r.items[i].val)]])

\* The values and rows row_to_dict is applied to.
Values ==
    { PyNone,
      Val("date", <<2026, 2, 3>>, <<>>), Val("date", <<1999, 12, 31>>, <<>>),
      Val("datetime", <<2026, 2, 3, 14, 30, 5, 0>>, <<>>),
      Val("datetime", <<1999, 12, 31, 0, 0, 0, 500000>>, <<>>),
      Val("Decimal", <<2450, 2>>, <<>>), Val("Decimal", <<0 - 125, 3>>, <<>>),
      Val("int", <<7>>, <<>>), Val("int", <<0>>, <<>>),
      Val("bool", <<1>>, <<>>), Val("bool", <<0>>, <<>>),
      Val("float", <<245, 10>>, <<>>),
      Val("str", <<>>, <<"n", "o", "r", "t", "h">>), Val("str", <<>>, <<>>) }

Columns == {"c1", "c2"}

Item(c, v) == [col |-> c, val |-> v]

InputRows ==
    {NullRow, PyRow(<<>>)}
      \cup {PyRow(<<Item(c, v)>>) : c \in Columns, v \in Values}
      \cup {PyRow(<<Item("c1", v), Item("c2", w)>>) : v \in Values, w \in Values}
      \cup {PyRow(<<Item("c2", v), Item("c1", w)>>) : v \in Values, w \in Values}

normalize(r) ==
    /\ in_row' = r
    /\ normalized' = row_to_dict(r)
    /\ UNCHANGED <<poolVars, dbVars, callVars, histVars, logged, stu, resp, appVars, limVars>>

NextRows == \E r \in InputRows : normalize(r)

SpecRows == Init /\ [][NextRows]_vars

\* ------------------------------------------------- the result modes
\* The hosted service with requests that insert rows of one site and read its
\* history with every combination of fetch and fetch_one.
fetch_query(t) == lifecycle = "serving" /\ call_execute_query(t, {"IGNORE", "HISTORY"})

NextFetch ==
    \/ startup_event
    \/ \E t \in Callers :
         \/ fetch_query(t)
         \/ getconn(t)
         \/ query_execute(t, {"s1", "s2"}, Modes)
         \/ query_commit(t)
         \/ putconn(t)
         \/ return(t)

SpecFetch == Init /\ [][NextFetch]_vars

\* ------------------------------------------------- the stored rows as Python rows
VALID_SITES == {"north", "central", "south"}

\* The dates of the reserve keys, the hours, and the strings a request sends.
Dates    == {<<2026, 2, 3>>, <<2026, 2, 4>>, <<2026, 2, 5>>}
SiteArgs == {"north", "south", "central", "mars", ""}
DateArgs == {"2026-02-03", "2026-02-04", "03/02/2026", ""}

DateOf(k) == IF k = "r4" THEN <<2026, 2, 4>> ELSE <<2026, 2, 3>>
HourOf(k) == IF k = "r2" THEN 1 ELSE IF k = "r3" THEN 2 ELSE 0

\* The characters of the strings that reach an answer.
Chars(s) ==
    IF s = "north" THEN <<"n", "o", "r", "t", "h">>
    ELSE IF s = "south" THEN <<"s", "o", "u", "t", "h">>
    ELSE IF s = "central" THEN <<"c", "e", "n", "t", "r", "a", "l">>
    ELSE IF s = "2026-02-03" THEN <<"2", "0", "2", "6", "-", "0", "2", "-", "0", "3">>
    ELSE IF s = "2026-02-04" THEN <<"2", "0", "2", "6", "-", "0", "2", "-", "0", "4">>
    ELSE <<>>

\* The non-key columns of a row with payload p.  NUMERIC(10,2) columns hold a
\* Decimal of scale 2 or NULL.
Numeric(unscaled) == Val("Decimal", <<unscaled, 2>>, <<>>)

sr_price(p)  == Numeric(1000 * p)
sup_price(p) == IF p = 1 THEN PyNone ELSE Numeric(3000)

Timestamp(hour, second) == Val("datetime", <<2026, 2, 3, hour, 0, second, 0>>, <<>>)

\* One row of SELECT * as RealDictCursor hands it over (the columns id and
\* created_at, and the telemetry columns that repeat daily_generation, are left out).
SolarRow(k) ==
    PyRow(<<Item("site_id", Val("str", <<>>, Chars(SiteOf(k)))),
            Item("datetime", Timestamp(12 + TimeOf(k), 0)),
            Item("daily_generation", Numeric(1000 * store[k].p)),
            Item("module_temperature",
                 IF store[k].p = 1 THEN PyNone ELSE Numeric(2550))>>)

LoadRow(k) ==
    PyRow(<<Item("site_id", Val("str", <<>>, Chars(SiteOf(k)))),
            Item("datetime", Timestamp(12 + TimeOf(k), 0)),
            Item("load_value", Numeric(500 * store[k].p))>>)

ReserveRow(k) ==
    PyRow(<<Item("tran_date", Val("date", DateOf(k), <<>>)),
            Item("tran_hour", Val("int", <<HourOf(k)>>, <<>>)),
            Item("sr_price", sr_price(store[k].p)),
            Item("sup_price", sup_price(store[k].p)),
            Item("updated_at", Timestamp(0, store[k].ts))>>)

RowsOfKeys(ks) ==
    [i \in 1..Len(ks) |->
        IF ks[i] \in ReserveKeys THEN ReserveRow(ks[i])
        ELSE IF ks[i] \in LoadKeys THEN LoadRow(ks[i])
        ELSE SolarRow(ks[i])]

\* ------------------------------------------------- the SELECT statements
\* Each is given as the rows a committed read returns, in order.
KeysDesc(table, site) ==
    IF table = "solar" THEN SiteKeysDesc(site)
    ELSE IF site = "north" THEN <<"l1">>
    ELSE IF site = "south" THEN <<"l2">>
    ELSE <<>>

SELECT_HISTORY_SQL(table, site) ==
    LET Present(k) == store[k].p # 0
    IN RowsOfKeys(SelectSeq(KeysDesc(table, site), Present))

SELECT_LATEST_SQL(table, site) ==
    LET rs == SELECT_HISTORY_SQL(table, site)
    IN IF rs = <<>> THEN <<>> ELSE <<rs[1]>>

SELECT_ALL_LATEST_SQL(table) ==
    SELECT_LATEST_SQL(table, "central") \o SELECT_LATEST_SQL(table, "north")
        \o SELECT_LATEST_SQL(table, "south")

DayKeys(d) ==
    LET OfDay(k) == DateOf(k) = d /\ store[k].p # 0
    IN SelectSeq(<<"r1", "r2", "r3", "r4">>, OfDay)

SELECT_BY_DATE_SQL(d) == RowsOfKeys(DayKeys(d))

\* Aggregates of a NUMERIC(10,2) column: NULLs are ignored, and the aggregate
\* of no value is NULL.
NotNull(vs) == LET Is(v) == v.ty # "None" IN SelectSeq(vs, Is)

RECURSIVE SumUnscaled(_)
SumUnscaled(vs) == IF vs = <<>> THEN 0 ELSE Head(vs).n[1] + SumUnscaled(Tail(vs))

\* AVG keeps at least 16 significant digits in PostgreSQL; here it keeps
\* AvgScale fractional digits, rounded half up.
AvgScale == 4
RoundDiv(a, b) == (2 * a + b) \div (2 * b)

AVG(vs) ==
    LET nn == NotNull(vs)
    IN IF nn = <<>> THEN PyNone
       ELSE Val("Decimal",
                <<RoundDiv(SumUnscaled(nn) * Pow10(AvgScale - 2), Len(nn)), AvgScale>>,
                <<>>)

SUM(vs) ==
    LET nn == NotNull(vs)
    IN IF nn = <<>> THEN PyNone ELSE Numeric(SumUnscaled(nn))

MAX(vs) ==
    LET nn == NotNull(vs)
    IN IF nn = <<>> THEN PyNone
       ELSE CHOOSE v \in {nn[i] : i \in 1..Len(nn)} :
                \A i \in 1..Len(nn) : nn[i].n[1] <= v.n[1]

MIN(vs) ==
    LET nn == NotNull(vs)
    IN IF nn = <<>> THEN PyNone
       ELSE CHOOSE v \in {nn[i] : i \in 1..Len(nn)} :
                \A i \in 1..Len(nn) : nn[i].n[1] >= v.n[1]

StatisticsRow(d) ==
    LET ks  == DayKeys(d)
        sr  == [i \in 1..Len(ks) |-> sr_price(store[ks[i]].p)]
        sup == [i \in 1..Len(ks) |-> sup_price(store[ks[i]].p)]
        \* sr_bid + sr_bid_qse + sr_bid_nontrade, and the same of sup
        src == [i \in 1..Len(ks) |-> Numeric(10000 * store[ks[i]].p)]
        spc == [i \in 1..Len(ks) |->
                  IF store[ks[i]].p = 1 THEN PyNone ELSE Numeric(5000)]
    IN PyRow(<<Item("tran_date", Val("date", d, <<>>)),
               Item("avg_sr_price", AVG(sr)),
               Item("max_sr_price", MAX(sr)),
               Item("min_sr_price", MIN(sr)),
               Item("avg_sup_price", AVG(sup)),
               Item("max_sup_price", MAX(sup)),
               Item("min_sup_price", MIN(sup)),
               Item("total_sr_capacity", SUM(src)),
               Item("total_sup_capacity", SUM(spc))>>)

\* Variant: the aggregates without GROUP BY, which yield one row of NULLs for
\* a date without rows.
SELECT_STATISTICS_SQL_ungrouped(d) == <<StatisticsRow(d)>>

\* GROUP BY tran_date: one row for the date if it has rows, else none.
SELECT_STATISTICS_SQL(d) == IF DayKeys(d) = <<>> THEN <<>> ELSE <<StatisticsRow(d)>>

\* ------------------------------------------------- the route handlers
\* A handler is given as the answer it computes from its parameters and the
\* committed rows; its execute_query calls run to completion within the step.
\* fails tells that execute_query raises.
HTTPException(ep, arg, status, error, queries) ==
    Response(ep, arg, status, error, queries, <<>>, <<>>)

\* `if site_id:`, `if date:` : the parameter was sent and is not empty.
Truthy(a) == a.some /\ a.v # ""

\* The row of a fetch_one result, None included.
RowOf(res) == IF res.kind = "None" THEN NullRow ELSE res.rows[1]

\* row[c]
Field(r, c) == r.items[CHOOSE i \in 1..Len(r.items) : r.items[i].col = c].val

\* GET /api/vpp/realdata/{site_id}.  failAt: the execute_query call that
\* raises, 0 for none.  The answer's timestamp (the current time) is left out.
get_site_realdata(site_id, failAt) ==
    LET ep == "realdata/{site_id}"
        solar_row == fetchone(SELECT_LATEST_SQL("solar", site_id.v))
        load_row  == fetchone(SELECT_LATEST_SQL("load", site_id.v))
    IN IF site_id.v \notin VALID_SITES
       THEN HTTPException(ep, site_id, 400, "none", 0)
       ELSE IF failAt # 0
       THEN HTTPException(ep, site_id, 500, "OperationalError", failAt)
       ELSE Response(ep, site_id, 200, "none", 2, <<>>,
                     <<row_to_dict(RowOf(solar_row)), row_to_dict(RowOf(load_row))>>)

\* get_solar_latest (table "solar") and get_load_latest (table "load"):
\* GET /api/vpp/solar/latest and GET /api/vpp/load/latest
get_latest(table, site_id, fails) ==
    LET ep == IF table = "solar" THEN "solar/latest" ELSE "load/latest"
        row  == fetchone(SELECT_LATEST_SQL(table, site_id.v))
        rows == fetchall(SELECT_ALL_LATEST_SQL(table)).rows
    IN IF Truthy(site_id)
       THEN IF site_id.v \notin VALID_SITES
            THEN HTTPException(ep, site_id, 400, "none", 0)
            ELSE IF fails
            THEN HTTPException(ep, site_id, 500, "OperationalError", 1)
            ELSE Response(ep, site_id, 200, "none", 1, <<>>, <<row_to_dict(RowOf(row))>>)
       ELSE IF fails
       THEN HTTPException(ep, site_id, 500, "OperationalError", 1)
       ELSE Response(ep, site_id, 200, "none", 1, <<>>,
                     [i \in 1..Len(rows) |-> row_to_dict(rows[i])])

\* get_solar_history and get_load_history:
\* GET /api/vpp/solar/history and GET /api/vpp/load/history, called without
\* start_date, end_date and limit: the last seven days, which hold every row.
get_history(table, site_id, fails) ==
    LET ep == IF table = "solar" THEN "solar/history" ELSE "load/history"
        rows == fetchall(SELECT_HISTORY_SQL(table, site_id.v)).rows
    IN IF site_id.v \notin VALID_SITES
       THEN HTTPException(ep, site_id, 400, "none", 0)
       ELSE IF fails
       THEN HTTPException(ep, site_id, 500, "OperationalError", 1)
       ELSE Response(ep, site_id, 200, "none", 1, <<>>,
                     [i \in 1..Len(rows) |-> row_to_dict(rows[i])])

\* datetime.strptime(date, '%Y-%m-%d').date(): the date, or ValueError
strptime(s) ==
    IF s = "2026-02-03" THEN [ok |-> TRUE, d |-> <<2026, 2, 3>>]
    ELSE IF s = "2026-02-04" THEN [ok |-> TRUE, d |-> <<2026, 2, 4>>]
    ELSE [ok |-> FALSE, d |-> <<>>]

\* row_to_dict of routers/taipower.py, lines 15-19: dict(row)
dict(r) == r

\* GET /api/taipower/reserve/date
get_reserve_by_date(date, fails) ==
    LET ep == "reserve/date"
        target_date == strptime(date.v)
        rows == fetchall(SELECT_BY_DATE_SQL(target_date.d)).rows
    IN IF ~target_date.ok
       THEN HTTPException(ep, date, 400, "none", 0)
       ELSE IF fails
       THEN HTTPException(ep, date, 500, "OperationalError", 1)
       ELSE IF rows = <<>>
       THEN Response(ep, date, 404, "none", 1, Chars(date.v), <<>>)
       ELSE Response(ep, date, 200, "none", 1, Chars(date.v),
                     [i \in 1..Len(rows) |-> dict(rows[i])])

\* float(x) if x else 0: None and a Decimal equal to zero are false
FloatOrZero(v) ==
    IF v.ty = "None" \/ v.n[1] = 0 THEN Val("int", <<0>>, <<>>) ELSE float(v)

\* Lines 225-241: the statistics of the answer.
Statistics(row) ==
    PyRow(<<Item("sr.avg_price", FloatOrZero(Field(row, "avg_sr_price"))),
            Item("sr.max_price", FloatOrZero(Field(row, "max_sr_price"))),
            Item("sr.min_price", FloatOrZero(Field(row, "min_sr_price"))),
            Item("sr.total_capacity", FloatOrZero(Field(row, "total_sr_capacity"))),
            Item("sup.avg_price", FloatOrZero(Field(row, "avg_sup_price"))),
            Item("sup.max_price", FloatOrZero(Field(row, "max_sup_price"))),
            Item("sup.min_price", FloatOrZero(Field(row, "min_sup_price"))),
            Item("sup.total_capacity", FloatOrZero(Field(row, "total_sup_capacity")))>>)

\* GET /api/taipower/reserve/statistics.  today: Config.get_current_time().date();
\* target_date.strftime('%Y-%m-%d') is DateIso.
get_reserve_statistics(date, today, fails) ==
    LET ep == "reserve/statistics"
        target_date == IF Truthy(date) THEN strptime(date.v) ELSE [ok |-> TRUE, d |-> today]
        row == fetchone(SELECT_STATISTICS_SQL(target_date.d))
    IN IF ~target_date.ok
       THEN HTTPException(ep, date, 400, "none", 0)
       ELSE IF fails
       THEN HTTPException(ep, date, 500, "OperationalError", 1)
       ELSE IF row.kind = "None"
       THEN Response(ep, date, 404, "none", 1, DateIso(target_date.d), <<>>)
       ELSE Response(ep, date, 200, "none", 1, DateIso(target_date.d),
                     <<Statistics(RowOf(row))>>)

\* A request is answered.
Answer(r) ==
    /\ lifecycle = "serving"
    /\ resp' = r
    /\ UNCHANGED <<poolVars, dbVars, callVars, histVars, logged, stu, in_row, normalized,
                   limVars, appVars>>

\* An ingestion job commits one row: INSERT_SQL for solar_data and load_data,
\* UPSERT_SQL for taipower_reserve_data.
ingest(k, p) ==
    LET s == IF k \in ReserveKeys THEN "UPSERT" ELSE "IGNORE"
        o == StmtOutcome(s, [k |-> k, p |-> p, bad |-> FALSE], store[k].p)
    IN /\ s = "UPSERT" => clock <= MaxClock
       /\ store' = [store EXCEPT ![k] =
                      IF o.write = 0 THEN @
                      ELSE [p |-> o.write, ts |-> IF s = "UPSERT" THEN clock ELSE 0]]
       /\ clock' = IF s = "UPSERT" THEN clock + 1 ELSE clock
       /\ UNCHANGED <<poolVars, callVars, histVars, logged, ioVars>>

\* The site endpoints of routers/vpp.py over solar_data and load_data.
serve_site_realdata ==
    \E s \in SiteArgs : \E n \in 0..2 : Answer(get_site_realdata(Sent(s), n))
serve_solar_latest  ==
    \E a \in {Sent(s) : s \in SiteArgs} \cup {Absent} : \E f \in BOOLEAN :
        Answer(get_latest("solar", a, f))
serve_load_latest   ==
    \E a \in {Sent(s) : s \in SiteArgs} \cup {Absent} : \E f \in BOOLEAN :
        Answer(get_latest("load", a, f))
serve_solar_history ==
    \E s \in SiteArgs : \E f \in BOOLEAN : Answer(get_history("solar", Sent(s), f))
serve_load_history  ==
    \E s \in SiteArgs : \E f \in BOOLEAN : Answer(get_history("load", Sent(s), f))

NextVpp ==
    \/ startup_event
    \/ \E k \in {"s1", "s2", "s3", "l1"} : \E p \in Payloads : ingest(k, p)
    \/ serve_site_realdata
    \/ serve_solar_latest
    \/ serve_load_latest
    \/ serve_solar_history
    \/ serve_load_history

SpecVpp == Init /\ [][NextVpp]_vars

\* The reserve endpoints of routers/taipower.py.
serve_reserve_by_date ==
    \E s \in DateArgs : \E f \in BOOLEAN : Answer(get_reserve_by_date(Sent(s), f))
serve_reserve_statistics ==
    \E a \in {Sent(s) : s \in DateArgs} \cup {Absent} : \E today \in Dates : \E f \in BOOLEAN :
        Answer(get_reserve_statistics(a, today, f))

NextTaipower ==
    \/ startup_event
    \/ \E k \in ReserveKeys : \E p \in Payloads : ingest(k, p)
    \/ serve_reserve_by_date
    \/ serve_reserve_statistics

SpecTaipower == Init /\ [][NextTaipower]_vars

\* ------------------------------------------------- upload_data
MaxUploads == 2     \* rows of table stu with the same content

\* The request body (device_id, value, timestamp) of a sample.
SampleRow(x) ==
    PyRow(<<Item("device_id", Val("str", <<>>, <<"p", "i", IF x = "x1" THEN "1" ELSE "2">>)),
            Item("value", Val("float", <<IF x = "x1" THEN 245 ELSE 0, 10>>, <<>>)),
            Item("timestamp", Val("str", <<>>, <<x>>))>>)

\* POST /api/upload arrives: lines 28-30.  bad: the server rejects the values.
call_upload_data(t) ==
    /\ lifecycle = "serving"
    /\ pc[t] = "idle"
    /\ \E x \in Samples : \E bad \in BOOLEAN :
         /\ stu[x] + Cardinality({u \in Threads : op[u] = "upload" /\ cur[u].k = x})
               < MaxUploads
         /\ cur' = [cur EXCEPT ![t] = [k |-> x, p |-> 1, bad |-> bad]]
    /\ op' = [op EXCEPT ![t] = "upload"]
    /\ stmt' = [stmt EXCEPT ![t] = "INSERT INTO stu"]
    /\ pc' = [pc EXCEPT ![t] = IF db_pool = 0 THEN "init" ELSE "getconn"]
    /\ UNCHANGED <<poolVars, dbVars, mode, nRows, conn, inTx, txStart, pend,
                   success_count, exc, result, histVars, logged, ioVars>>

\* Lines 34-35: cursor.execute.  A psycopg2.Error leaves the with-block at
\* once: upload_data neither rolls back nor logs.
upload_execute(t) ==
    /\ pc[t] = "u_exec"
    /\ inTx' = [inTx EXCEPT ![t] = TRUE]
    /\ exc' = [exc EXCEPT ![t] = IF cur[t].bad THEN "DataError" ELSE "none"]
    /\ pc' = [pc EXCEPT ![t] = IF cur[t].bad THEN "putconn" ELSE "u_commit"]
    /\ UNCHANGED <<poolVars, dbVars, op, stmt, mode, cur, nRows, conn, txStart, pend,
                   success_count, result, histVars, logged, ioVars>>

\* Variant: table stu with a uniqueness constraint and ON CONFLICT DO NOTHING.
InsertIntoStu_unique(x) == IF stu[x] > 0 THEN stu ELSE [stu EXCEPT ![x] = 1]

\* INSERT INTO stu (device_id, value, timestamp) VALUES (%s, %s, %s), committed.
InsertIntoStu(x) == [stu EXCEPT ![x] = @ + 1]

\* Line 37: conn.commit(), which may fail (connection lost).
upload_commit(t) ==
    /\ pc[t] = "u_commit"
    /\ \E ok \in BOOLEAN :
         /\ stu' = IF ok THEN InsertIntoStu(cur[t].k) ELSE stu
         /\ commits' = [commits EXCEPT ![t] = IF ok THEN @ + 1 ELSE @]
         /\ inTx' = [inTx EXCEPT ![t] = ~ok]
         /\ exc' = [exc EXCEPT ![t] = IF ok THEN "none" ELSE "OperationalError"]
    /\ pc' = [pc EXCEPT ![t] = "putconn"]
    /\ UNCHANGED <<poolVars, dbVars, op, stmt, mode, cur, nRows, conn, txStart, pend,
                   success_count, result, rollbacks, applied, durable, logged,
                   resp, in_row, normalized, limVars, appVars>>

\* Lines 40-58: the answer.  201 with the submitted data; any exception of
\* the with-block, PoolError included, is answered 500.
UploadResponse(t) ==
    IF exc[t] = "none"
    THEN Response("upload", Sent(cur[t].k), 201, "none", 1, <<>>, <<SampleRow(cur[t].k)>>)
    ELSE HTTPException("upload", Sent(cur[t].k), 500, exc[t],
                       IF exc[t] = "PoolError" THEN 0 ELSE 1)

upload_return(t) ==
    /\ op[t] = "upload"
    /\ DropFrame(t)
    /\ resp' = UploadResponse(t)
    /\ UNCHANGED <<stu, in_row, normalized, limVars, appVars>>

NextUpload ==
    \/ startup_event
    \/ \E t \in Callers :
         \/ call_upload_data(t)
         \/ getconn(t)
         \/ upload_execute(t)
         \/ upload_commit(t)
         \/ putconn(t)
         \/ upload_return(t)

SpecUpload == Init /\ [][NextUpload]_vars

\* ------------------------------------------------- route registration
\* A route: its methods and its path, the path as its segments
\* ("/api/vpp/summary" is <<"api", "vpp", "summary">>, "/" is <<>>).
Route(methods, path) == [methods |-> methods, path |-> path]

\* The @router.get / @router.post decorators of a router module, in source order.
Decorated(r) ==
    IF r = "vpp"
    THEN << Route({"GET"}, <<"api", "vpp", "realdata">>),
            Route({"GET"}, <<"api", "vpp", "realdata", "{site_id}">>),
            Route({"GET"}, <<"api", "vpp", "solar", "latest">>),
            Route({"GET"}, <<"api", "vpp", "solar", "history">>),
            Route({"GET"}, <<"api", "vpp", "load", "latest">>),
            Route({"GET"}, <<"api", "vpp", "load", "history">>),
            Route({"GET"}, <<"api", "vpp", "summary">>) >>
    ELSE IF r = "taipower"
    THEN << Route({"GET"}, <<"api", "taipower", "reserve", "latest">>),
            Route({"GET"}, <<"api", "taipower", "reserve", "date">>),
            Route({"GET"}, <<"api", "taipower", "reserve", "history">>),
            Route({"GET"}, <<"api", "taipower", "reserve", "statistics">>),
            Route({"GET"}, <<"api", "taipower", "reserve", "hour">>) >>
    ELSE << Route({"POST"}, <<"api", "upload">>) >>

\* The routes FastAPI(docs_url="/docs", redoc_url="/redoc") starts with; a
\* plain route that allows GET allows HEAD too.
FrameworkRoutes ==
    << Route({"GET", "HEAD"}, <<"openapi.json">>),
       Route({"GET", "HEAD"}, <<"docs">>),
       Route({"GET", "HEAD"}, <<"docs", "oauth2-redirect">>),
       Route({"GET", "HEAD"}, <<"redoc">>) >>

\* Line 7 of main.py: from routers import vpp, taipower, upload.  Each step
\* is one decorator of the module being imported.
Importing ==
    IF Len(routers["vpp"]) < Len(Decorated("vpp")) THEN "vpp"
    ELSE IF Len(routers["taipower"]) < Len(Decorated("taipower")) THEN "taipower"
    ELSE IF Len(routers["upload"]) < Len(Decorated("upload")) THEN "upload"
    ELSE "none"

router_decorator ==
    /\ main_pc = 7
    /\ Importing # "none"
    /\ routers' = [routers EXCEPT ![Importing] =
                      Append(@, Decorated(Importing)[Len(@) + 1])]
    /\ UNCHANGED <<poolVars, dbVars, callVars, histVars, logged, stu, resp, in_row,
                   normalized, limVars, main_pc, app_routes, tr>>

\* Lines 14-20: app = FastAPI(...)
create_app ==
    /\ main_pc = 7
    /\ Importing = "none"
    /\ app_routes' = FrameworkRoutes
    /\ main_pc' = 81
    /\ UNCHANGED <<poolVars, dbVars, callVars, histVars, logged, stu, resp, in_row,
                   normalized, limVars, routers, tr>>

\* Variant: the router is included under the prefix /v2.
IncludeRouter_prefixed(r) ==
    app_routes \o [i \in 1..Len(routers[r]) |->
                      Route(routers[r][i].methods, <<"v2">> \o routers[r][i].path)]

\* app.include_router(r.router): the routes of the router, in order, appended
\* to those of the application.
IncludeRouter(r) == app_routes \o routers[r]

\* Lines 81-83.
include_router ==
    /\ main_pc \in {81, 82, 83}
    /\ app_routes' = IncludeRouter(IF main_pc = 81 THEN "vpp"
                                   ELSE IF main_pc = 82 THEN "taipower" ELSE "upload")
    /\ main_pc' = IF main_pc = 83 THEN 99 ELSE main_pc + 1
    /\ UNCHANGED <<poolVars, dbVars, callVars, histVars, logged, stu, resp, in_row,
                   normalized, limVars, routers, tr>>

\* Lines 99 and 139: @app.get("/") and @app.get("/health").  At 154 the
\* module is loaded.
app_get ==
    /\ main_pc \in {99, 139}
    /\ app_routes' = Append(app_routes,
                            Route({"GET"}, IF main_pc = 99 THEN <<>> ELSE <<"health">>))
    /\ main_pc' = IF main_pc = 99 THEN 139 ELSE 154
    /\ UNCHANGED <<poolVars, dbVars, callVars, histVars, logged, stu, resp, in_row,
                   normalized, limVars, routers, tr>>

\* ------------------------------------------------- test_routes
\* expected_endpoints, by category in the order of the dict.
expected_endpoints ==
    << << <<"GET", <<"api", "vpp", "realdata">> >>,
          <<"GET", <<"api", "vpp", "realdata", "{site_id}">> >>,
          <<"GET", <<"api", "vpp", "solar", "latest">> >>,
          <<"GET", <<"api", "vpp", "solar", "history">> >>,
          <<"GET", <<"api", "vpp", "load", "latest">> >>,
          <<"GET", <<"api", "vpp", "load", "history">> >>,
          <<"GET", <<"api", "vpp", "summary">> >> >>,
       << <<"GET", <<"api", "taipower", "reserve", "latest">> >>,
          <<"GET", <<"api", "taipower", "reserve", "date">> >>,
          <<"GET", <<"api", "taipower", "reserve", "history">> >>,
          <<"GET", <<"api", "taipower", "reserve", "statistics">> >>,
          <<"GET", <<"api", "taipower", "reserve", "hour">> >> >>,
       << <<"POST", <<"api", "upload">> >> >>,
       << <<"GET", <<>> >>,
          <<"GET", <<"health">> >> >> >>

\* The endpoints in the order the loops of lines 52-54 visit them.
Flattened ==
    expected_endpoints[1] \o expected_endpoints[2] \o expected_endpoints[3]
        \o expected_endpoints[4]

\* Line 5 has loaded module main; test_routes() is called.
call_test_routes ==
    /\ main_pc = 154
    /\ tr.at = "none"
    /\ tr' = [tr EXCEPT !.at = "collect", !.i = 1, !.methods = app_routes[1].methods]
    /\ UNCHANGED <<poolVars, dbVars, callVars, histVars, logged, stu, resp, in_row,
                   normalized, limVars, main_pc, routers, app_routes>>

\* Lines 42-46: one method of route i, in the order the set yields them.
\* Every route of this application has methods and a path.
collect_route ==
    /\ tr.at = "collect"
    /\ \E method \in tr.methods :
         LET rest == tr.methods \ {method}
             last == rest = {} /\ tr.i = Len(app_routes)
             next == rest = {} /\ tr.i < Len(app_routes)
         IN tr' = [tr EXCEPT
                     !.registered_routes =
                         IF method \notin {"HEAD", "OPTIONS"}
                         THEN Append(@, <<method, app_routes[tr.i].path>>) ELSE @,
                     !.methods = IF next THEN app_routes[tr.i + 1].methods ELSE rest,
                     !.i = IF next THEN @ + 1 ELSE @,
                     !.j = IF last THEN 1 ELSE @,
                     !.at = IF last THEN "check" ELSE @]
    /\ UNCHANGED <<poolVars, dbVars, callVars, histVars, logged, stu, resp, in_row,
                   normalized, limVars, main_pc, routers, app_routes>>

\* Lines 52-60: one expected endpoint.
check_endpoint ==
    /\ tr.at = "check"
    /\ LET found == \E n \in 1..Len(tr.registered_routes) :
                        tr.registered_routes[n] = Flattened[tr.j]
           last  == tr.j = Len(Flattened)
       IN tr' = [tr EXCEPT
                   !.total_expected = @ + 1,
                   !.total_found = IF found THEN @ + 1 ELSE @,
                   !.j = IF last THEN @ ELSE @ + 1,
                   !.k = IF last THEN 1 ELSE @,
                   !.c = IF last THEN 1 ELSE @,
                   !.at = IF last THEN (IF tr.registered_routes = <<>> THEN "summary"
                                        ELSE "extra") ELSE @]
    /\ UNCHANGED <<poolVars, dbVars, callVars, histVars, logged, stu, resp, in_row,
                   normalized, limVars, main_pc, routers, app_routes>>

\* Lines 66-69: registered route k against category c; break when it is found.
match_category ==
    /\ tr.at = "extra"
    /\ LET found == \E n \in 1..Len(expected_endpoints[tr.c]) :
                        expected_endpoints[tr.c][n] = tr.registered_routes[tr.k]
       IN tr' = [tr EXCEPT
                   !.is_expected = found,
                   !.c = IF found \/ tr.c = Len(expected_endpoints) THEN @ ELSE @ + 1,
                   !.at = IF found \/ tr.c = Len(expected_endpoints) THEN "report" ELSE @]
    /\ UNCHANGED <<poolVars, dbVars, callVars, histVars, logged, stu, resp, in_row,
                   normalized, limVars, main_pc, routers, app_routes>>

\* Lines 70-71: an endpoint nobody expected is reported as extra, unless
\* path.startswith(("/openapi", "/docs", "/redoc")).
report_extra ==
    /\ tr.at = "report"
    /\ LET route == tr.registered_routes[tr.k]
           last  == tr.k = Len(tr.registered_routes)
           docs  == route[2] # <<>> /\ route[2][1] \in {"openapi.json", "docs", "redoc"}
       IN tr' = [tr EXCEPT
                   !.extra = IF ~tr.is_expected /\ ~docs
                             THEN Append(@, route) ELSE @,
                   !.is_expected = FALSE,
                   !.k = IF last THEN @ ELSE @ + 1,
                   !.c = 1,
                   !.at = IF last THEN "summary" ELSE "extra"]
    /\ UNCHANGED <<poolVars, dbVars, callVars, histVars, logged, stu, resp, in_row,
                   normalized, limVars, main_pc, routers, app_routes>>

\* Lines 77-82.
summarize ==
    /\ tr.at = "summary"
    /\ tr' = [tr EXCEPT !.result = (tr.total_found = tr.total_expected),
                        !.at = "returned"]
    /\ UNCHANGED <<poolVars, dbVars, callVars, histVars, logged, stu, resp, in_row,
                   normalized, limVars, main_pc, routers, app_routes>>

NextRoutes ==
    \/ router_decorator
    \/ create_app
    \/ include_router
    \/ app_get
    \/ call_test_routes
    \/ collect_route
    \/ check_endpoint
    \/ match_category
    \/ report_extra
    \/ summarize

SpecRoutes == Init /\ [][NextRoutes]_vars

\* ------------------------------------------------- RateLimiter.is_allowed
\* Time passes.
tick ==
    /\ time < MaxTime
    /\ time' = time + 1
    /\ UNCHANGED <<poolVars, dbVars, callVars, histVars, logged, stu, resp, in_row,
                   normalized, appVars, requests, lock, rl, admitted, calls>>

\* Lines 31-32: now = time.time(); key = f"{client_ip}:{path}"
call_is_allowed(t) ==
    /\ rl[t].at = "none"
    /\ calls < MaxCalls
    /\ calls' = calls + 1
    /\ \E key \in RateKeys :
          rl' = [rl EXCEPT ![t] = [at |-> "lock", now |-> time, key |-> key, ret |-> FALSE]]
    /\ UNCHANGED <<poolVars, dbVars, callVars, histVars, logged, stu, resp, in_row,
                   normalized, appVars, time, requests, lock, admitted>>

\* [req_time for req_time in self.requests[key] if now - req_time < 60]
Recent(now, times) ==
    LET Young(req_time) == now - req_time < Window
    IN SelectSeq(times, Young)

\* Lines 34-36: the lock is taken and the old request times are dropped.
purge(t) ==
    /\ rl[t].at = "lock"
    /\ lock = "none"
    /\ lock' = t
    /\ requests' = [requests EXCEPT ![rl[t].key] = Recent(rl[t].now, @)]
    /\ rl' = [rl EXCEPT ![t].at = "check"]
    /\ UNCHANGED <<poolVars, dbVars, callVars, histVars, logged, stu, resp, in_row,
                   normalized, appVars, time, admitted, calls>>

\* Lines 39-44: False at the limit, else the request is recorded; the lock is
\* released on the way out.
decide(t) ==
    /\ rl[t].at = "check"
    /\ LET full == Len(requests[rl[t].key]) >= MaxPerMinute
       IN /\ requests' = [requests EXCEPT ![rl[t].key] =
                             IF full THEN @ ELSE Append(@, rl[t].now)]
          /\ admitted' = [admitted EXCEPT ![rl[t].key][rl[t].now] =
                             IF full THEN @ ELSE @ + 1]
          /\ rl' = [rl EXCEPT ![t].at = "returned", ![t].ret = ~full]
    /\ lock' = "none"
    /\ UNCHANGED <<poolVars, dbVars, callVars, histVars, logged, stu, resp, in_row,
                   normalized, appVars, time, calls>>

\* The caller has the answer.
answered(t) ==
    /\ rl[t].at = "returned"
    /\ rl' = [rl EXCEPT ![t] = NoCall]
    /\ UNCHANGED <<poolVars, dbVars, callVars, histVars, logged, stu, resp, in_row,
                   normalized, appVars, time, requests, lock, admitted, calls>>

NextLimiter ==
    \/ tick
    \/ \E t \in Callers :
         \/ call_is_allowed(t)
         \/ purge(t)
         \/ decide(t)
         \/ answered(t)

SpecLimiter == Init /\ [][NextLimiter]_vars

\* ------------------------------------------------- use after shutdown
\* A process whose threads call execute_query whenever they like: before the
\* startup hook, while the service runs, and after the shutdown hook.
late_query(t) == call_execute_query(t, {"IGNORE", "SELECT"})

NextStopped ==
    \/ startup_event
    \/ shutdown_event
    \/ \E t \in Callers :
         \/ late_query(t)
         \/ lazy_init(t)
         \/ getconn(t)
         \/ query_execute(t, {"s1"}, {"none", "one"})
         \/ query_commit(t)
         \/ putconn(t)
         \/ return(t)

SpecStopped == Init /\ [][NextStopped]_vars

\* ================================================================ properties
Returned(t) == pc[t] = "done"
Leaving(t)  == pc[t] \in {"putconn", "done"}    \* past the return / raise statement
StmtError(t) == exc[t] \notin {"none", "PoolError"}
Held == {conn[t] : t \in Threads} \ {NoConn}
AppliedKeys(t) == {k \in Keys : applied[t][k] # 0}

\* C1: connection release on every exit path.  A caller outside the with-block
\* of get_db_connection holds no connection, whether its call returned or
\* raised, and the checked-out slots of every pool are exactly the connections
\* held by calls in progress: after any sequence of successful and failing
\* calls the pool has as many available connections as before.
C1_ConnectionAlwaysReleased ==
    /\ \A t \in Threads : pc[t] \in {"idle", "init", "getconn", "done"} => conn[t] = NoConn
    /\ \A p \in Pools : used[p] = {c.idx : c \in {h \in Held : h.pool = p}}

C1_Witness ==
    \E t \in Threads : \E u \in Threads \ {t} :
        /\ Returned(t) /\ op[t] = "query" /\ StmtError(t)
        /\ Returned(u) /\ op[u] = "batch" /\ StmtError(u)
        /\ used[db_pool] = {}

\* C2: execute_query transaction discipline.  A call whose statement and fetch
\* completed has committed exactly once and never rolled back by the time it
\* returns; a call whose execution raised has rolled back, has not committed,
\* has made nothing durable, and carries the exception to its caller.
C2_QueryCommitOrRollback ==
    \A t \in Threads : op[t] = "query" /\ Leaving(t) =>
        IF exc[t] = "none"
        THEN commits[t] = 1 /\ rollbacks[t] = 0
        ELSE StmtError(t) /\ commits[t] = 0 /\ rollbacks[t] = 1 /\ durable[t] = {}
                          /\ pend[t] = NoPend

C2_Witness ==
    \E t \in Threads : \E u \in Threads \ {t} :
        /\ Returned(t) /\ op[t] = "query" /\ exc[t] = "ProgrammingError"
        /\ Returned(u) /\ op[u] = "query" /\ exc[u] = "none" /\ durable[u] # {}

\* C3: execute_batch per-row isolation.  When a batch has returned, every tuple
\* of it that executed without error (rowcount 1) is stored, including the
\* tuples executed before one that raised a uniqueness violation.
C3_PerRowIsolation ==
    \A t \in Threads : op[t] = "batch" /\ Returned(t) /\ exc[t] = "none" =>
        \A k \in AppliedKeys(t) : store[k].p = applied[t][k]

\* C4: execute_batch returns the number of tuples of the batch whose effect is
\* committed when the call returns.
C4_CountIsCommittedRows ==
    \A t \in Threads : op[t] = "batch" /\ Returned(t) /\ exc[t] = "none" =>
        result[t] = Cardinality(durable[t])

\* C5: execute_batch on an unexpected error.  A batch that raised an exception
\* other than IntegrityError has rolled back, has never committed and has made
\* no tuple durable.
C5_NoPartialBatch ==
    \A t \in Threads : op[t] = "batch" /\ Leaving(t) /\ exc[t] # "none" =>
        /\ StmtError(t)
        /\ rollbacks[t] >= 1
        /\ commits[t] = 0
        /\ durable[t] = {}
        /\ pend[t] = NoPend

C5_Witness ==
    \E t \in Threads :
        /\ op[t] = "batch" /\ Returned(t) /\ exc[t] = "DataError"
        /\ AppliedKeys(t) # {}
        /\ \A k \in AppliedKeys(t) : store[k].p = 0

\* C7: insert-or-ignore idempotence.  A stored solar/load row is never changed
\* by a later application, whatever its payload; an application of INSERT_SQL
\* never raises IntegrityError; and when it has returned, each tuple it applied
\* is the stored row, each tuple it did not apply left the stored row as it was.
C7_InsertIgnoreIdempotent ==
    [][ /\ \A k \in SolarKeys : store[k].p # 0 => store'[k] = store[k]
        /\ \A t \in Threads : stmt'[t] = "IGNORE" =>
              /\ exc'[t] # "Integrity"
              /\ pc'[t] = "done" /\ exc'[t] = "none" =>
                    \A k \in SolarKeys : applied'[t][k] # 0 => store'[k].p = applied'[t][k]
      ]_vars

C7_Witness ==
    \E t \in Threads :
        /\ Returned(t) /\ op[t] = "query" /\ stmt[t] = "IGNORE" /\ exc[t] = "none"
        /\ cur[t].p = 2 /\ store[cur[t].k].p = 1
        /\ AppliedKeys(t) = {}

\* C9: batch insert with INSERT_SQL never raises on a duplicate key.  Such a
\* batch raises no IntegrityError and rolls back only when it fails with another
\* error; when it returns, the count is the number of tuples newly stored, a
\* tuple whose key was already stored or already in the batch counting 0.
C9_IgnoreBatchCountsNewRows ==
    \A t \in Threads : op[t] = "batch" /\ stmt[t] = "IGNORE" =>
        /\ exc[t] # "Integrity"
        /\ exc[t] = "none" => rollbacks[t] = 0
        /\ success_count[t] = Cardinality(AppliedKeys(t))
        /\ Leaving(t) /\ exc[t] = "none" =>
              /\ commits[t] = 1
              /\ result[t] = Cardinality(durable[t])
              /\ durable[t] = AppliedKeys(t)

C9_Witness ==
    \E t \in Threads :
        /\ op[t] = "batch" /\ stmt[t] = "IGNORE" /\ Returned(t) /\ exc[t] = "none"
        /\ nRows[t] = 2 /\ result[t] = 1


\* C6: concurrent batch inserts on pairwise disjoint key sets.  Each caller's
\* batch returns without an exception, its count is the size of the batch, and
\* every tuple of it is stored; once all callers have returned the store holds
\* exactly the union of their tuples.
C6_DisjointBatchesAllStored ==
    /\ \A t \in Callers : Returned(t) =>
          /\ exc[t] = "none"
          /\ result[t] = nRows[t]
          /\ Cardinality(AppliedKeys(t)) = nRows[t]
          /\ \A k \in AppliedKeys(t) : store[k].p = applied[t][k]
    /\ (\A t \in Callers : Returned(t)) =>
          Stored = UNION {AppliedKeys(t) : t \in Callers}

C6_Witness ==
    /\ \A t \in Callers : Returned(t) /\ nRows[t] = 2
    /\ Stored = SolarKeys

\* C8: insert-or-replace for reserve records.  A commit that applies the upsert
\* to a key leaves one row whose measured fields are the payload of the most
\* recent application, and when it replaces a stored row the row's updated_at
\* is strictly greater than before.
C8_LastWriteWinsAndUpdatedAtGrows ==
    [][ \A t \in Threads : \A k \in ReserveKeys :
          commits'[t] = commits[t] + 1 /\ pend[t][k] # 0 =>
              /\ store'[k].p = pend[t][k]
              /\ store[k].p # 0 => store'[k].ts > store[k].ts
      ]_vars

\* C10: lazy initialization.  A caller that finds db_pool None constructs the
\* pool and binds the global before it asks for a connection; it then obtains a
\* connection of the pool the global names, without an exception; a call that
\* begins when the global is set constructs no pool, and nothing else does.
C10_LazyInitOnFirstUse ==
    [][ /\ \A t \in Threads :
              /\ pc[t] = "idle" /\ pc'[t] # "idle" =>
                    pc'[t] = (IF db_pool = 0 THEN "init" ELSE "getconn")
              /\ pc[t] = "init" /\ pc'[t] # "init" =>
                    db_pool' # 0 /\ db_pool' \notin closed' /\ pc'[t] = "getconn"
              /\ pc[t] = "getconn" /\ pc'[t] # "getconn" =>
                    /\ db_pool # 0
                    /\ exc'[t] = "none"
                    /\ conn'[t] # NoConn /\ conn'[t].pool = db_pool
        /\ nPools' # nPools => \E t \in Threads : pc[t] = "init"
        /\ db_pool # 0 /\ (\A t \in Threads : pc[t] # "init") => db_pool' = db_pool
      ]_vars

C10_Witness ==
    /\ lifecycle = "boot"
    /\ nPools = 1
    /\ \E t \in Threads : \E u \in Threads \ {t} :
          /\ Returned(t) /\ exc[t] = "none" /\ commits[t] = 1
          /\ conn[u] # NoConn /\ conn[u].pool = db_pool

\* C11: acquire on an exhausted pool blocks.  A caller that asks for a
\* connection while every connection of the open pool is checked out does not
\* fail: it stays at getconn, without an exception, until a holder has put a
\* connection back.
C11_ExhaustedAcquireBlocks ==
    [][ \A t \in Threads :
          pc[t] = "getconn" /\ db_pool \notin closed /\ FreeIdx(db_pool) = {} =>
              exc'[t] = "none" /\ pc'[t] = "getconn"
      ]_vars

\* C12: shutdown.  close_db_pool before any pool exists raises nothing and
\* changes nothing; with the hooks run once each, startup then shutdown, the
\* pool exists and is open whenever a request runs, and after the shutdown hook
\* every pool that was constructed is closed and none of its connections is
\* checked out.
C12_ShutdownClosesPool ==
    /\ lifecycle = "boot" => db_pool = 0 /\ nPools = 0 /\ closed = {}
    /\ \A t \in Threads :
          /\ op[t] = "close" => exc[t] = "none"
          /\ op[t] \in {"query", "batch"} =>
                lifecycle = "serving" /\ db_pool # 0 /\ db_pool \notin closed
    /\ lifecycle \notin {"boot", "serving"} =>
          /\ lifecycle = "stopped"
          /\ db_pool # 0 /\ closed = 1..nPools
          /\ \A p \in Pools : used[p] = {}
          /\ \A t \in Threads : conn[t] = NoConn

C12_Witness ==
    /\ lifecycle = "stopped"
    /\ db_pool \in closed
    /\ Stored # {}

\* C16: failure logging.  When an exception is about to leave execute_query
\* or execute_batch, the call has logged that exception in a record that holds
\* the statement and the parameters that raised it.
C16_FailureLoggedWithStatement ==
    \A t \in Threads : op[t] \in {"query", "batch"} /\ Leaving(t) /\ exc[t] # "none" =>
        \E l \in logged[t] :
            l.err = exc[t] /\ l.query = stmt[t] /\ l.params = cur[t]

\* The number a sequence of digit characters denotes, and whether it is one.
IsDigits(cs) == \A i \in 1..Len(cs) : \E d \in 0..9 : DigitChar(d) = cs[i]
DigitOf(c)   == CHOOSE d \in 0..9 : DigitChar(d) = c

RECURSIVE NumberOf(_)
NumberOf(cs) ==
    IF cs = <<>> THEN 0
    ELSE 10 * NumberOf(SubSeq(cs, 1, Len(cs) - 1)) + DigitOf(cs[Len(cs)])

\* cs is the ISO-8601 calendar date YYYY-MM-DD of year y, month m, day d.
IsIsoDate(cs, y, m, d) ==
    /\ Len(cs) = 10 /\ cs[5] = "-" /\ cs[8] = "-"
    /\ IsDigits(SubSeq(cs, 1, 4)) /\ NumberOf(SubSeq(cs, 1, 4)) = y
    /\ IsDigits(SubSeq(cs, 6, 7)) /\ NumberOf(SubSeq(cs, 6, 7)) = m
    /\ IsDigits(SubSeq(cs, 9, 10)) /\ NumberOf(SubSeq(cs, 9, 10)) = d

\* cs is the ISO-8601 time hh:mm:ss[.ffffff].
IsIsoTime(cs, h, mi, sec, us) ==
    /\ Len(cs) >= 8 /\ cs[3] = ":" /\ cs[6] = ":"
    /\ IsDigits(SubSeq(cs, 1, 2)) /\ NumberOf(SubSeq(cs, 1, 2)) = h
    /\ IsDigits(SubSeq(cs, 4, 5)) /\ NumberOf(SubSeq(cs, 4, 5)) = mi
    /\ IsDigits(SubSeq(cs, 7, 8)) /\ NumberOf(SubSeq(cs, 7, 8)) = sec
    /\ IF us = 0 THEN Len(cs) = 8
       ELSE /\ Len(cs) = 15 /\ cs[9] = "."
            /\ IsDigits(SubSeq(cs, 10, 15)) /\ NumberOf(SubSeq(cs, 10, 15)) = us

\* out is the ISO-8601 string of the temporal value v.
IsIsoOf(out, v) ==
    /\ out.ty = "str"
    /\ IF v.ty = "date" THEN IsIsoDate(out.s, v.n[1], v.n[2], v.n[3])
       ELSE /\ Len(out.s) >= 19 /\ out.s[11] = "T"
            /\ IsIsoDate(SubSeq(out.s, 1, 10), v.n[1], v.n[2], v.n[3])
            /\ IsIsoTime(SubSeq(out.s, 12, Len(out.s)), v.n[4], v.n[5], v.n[6], v.n[7])

\* out is a float with the numeric value of the Decimal v.
IsFloatOf(out, v) ==
    /\ out.ty = "float"
    /\ out.n[1] * Pow10(v.n[2]) = v.n[1] * out.n[2]

\* C13: row normalizer conversions.  row_to_dict maps None to None; for a row
\* it keeps the column names and their order, maps each date and datetime to
\* its ISO-8601 string and each Decimal to a float of the same numeric value.
C13_TemporalAndDecimalConverted ==
    /\ in_row.null <=> normalized.null
    /\ Len(normalized.items) = Len(in_row.items)
    /\ \A i \in 1..Len(in_row.items) :
          LET v   == in_row.items[i].val
              out == normalized.items[i].val
          IN /\ normalized.items[i].col = in_row.items[i].col
             /\ v.ty \in {"date", "datetime"} => IsIsoOf(out, v)
             /\ v.ty = "Decimal" => IsFloatOf(out, v)

C13_Witness ==
    /\ ~in_row.null /\ Len(in_row.items) = 2
    /\ in_row.items[1].col = "c2"
    /\ in_row.items[1].val = Val("datetime", <<1999, 12, 31, 0, 0, 0, 500000>>, <<>>)
    /\ in_row.items[2].val = Val("Decimal", <<0 - 125, 3>>, <<>>)
    /\ normalized.items[2].val = Val("float", <<0 - 125, 1000>>, <<>>)

\* C14: row normalizer passthrough.  Every value that is neither a date, a
\* datetime nor a Decimal is returned by row_to_dict as it was: same type, same
\* value.
C14_OtherValuesUnchanged ==
    \A i \in 1..Len(in_row.items) :
        in_row.items[i].val.ty \notin {"date", "datetime", "Decimal"} =>
            normalized.items[i].val = in_row.items[i].val

\* C17: execute_query result modes.  When the statement of a query has
\* executed, the value to return is: with fetch (with or without fetch_one),
\* the list of all rows the statement produced, in that order; with fetch_one
\* alone, the first of them, or None when there is none; with neither, None.
\* A read with valid parameters raises nothing, also when it yields no row.
C17_ResultModes ==
    [][ \A t \in Threads : pc[t] = "q_exec" /\ pc'[t] # "q_exec" =>
          LET rs == ResultSet(t, stmt[t], cur'[t])
              r  == result'[t]
          IN /\ stmt[t] \in Reads /\ ~cur'[t].bad => pc'[t] = "q_commit" /\ exc'[t] = "none"
             /\ pc'[t] = "q_commit" =>
                   /\ mode'[t] \in {"many", "both"} => r.kind = "list" /\ r.rows = rs
                   /\ mode'[t] = "one" /\ rs # <<>> => r.kind = "row" /\ r.rows = <<rs[1]>>
                   /\ mode'[t] = "one" /\ rs = <<>> => r.kind = "None" /\ r.rows = <<>>
                   /\ mode'[t] = "none" => r.kind = "None" /\ r.rows = <<>>
      ]_vars

C17_Witness ==
    \E t \in Threads : \E u \in Threads \ {t} :
        /\ Returned(t) /\ stmt[t] = "HISTORY" /\ mode[t] = "both" /\ exc[t] = "none"
        /\ result[t].kind = "list" /\ Len(result[t].rows) = 2
        /\ result[t].rows[1].k = "s2"
        /\ Returned(u) /\ stmt[u] = "HISTORY" /\ mode[u] = "one" /\ exc[u] = "none"
        /\ result[u].kind = "None"

\* The endpoints that take a site identifier.
SiteEndpoints ==
    {"realdata/{site_id}", "solar/latest", "solar/history", "load/latest", "load/history"}

\* C19: site identifier validation.  Whenever an endpoint that takes a site
\* identifier was sent a value outside {north, central, south}, the empty
\* string included, it answers 400 and has made no execute_query call.
C19_InvalidSiteRejected ==
    (resp.ep \in SiteEndpoints /\ resp.arg.some
        /\ resp.arg.v \notin {"north", "central", "south"})
    => (resp.status = 400 /\ resp.queries = 0)

\* C15: uniform normalization.  No row of a successful answer holds a date, a
\* datetime or a Decimal: each was turned into its ISO-8601 string or into a
\* float before the answer left the handler.
C15_EveryRowNormalized ==
    resp.status = 200
    => \A i \in 1..Len(resp.body) : \A j \in 1..Len(resp.body[i].items) :
           resp.body[i].items[j].val.ty \notin {"date", "datetime", "Decimal"}

\* The number num / den of a float or an int of an answer.
NumOf(v) == v.n[1]
DenOf(v) == IF v.ty = "float" THEN v.n[2] ELSE 1

\* out is the price unscaled / 100.
IsPrice(out, unscaled) == NumOf(out) * 100 = unscaled * DenOf(out)

\* The answer's avg, max and min of a category are those of the prices
\* (Decimals of scale 2) of the rows K; the average up to a thousandth.
PricesSummarized(stats, cat, price(_), K) ==
    LET P   == {k \in K : price(k).ty # "None"}
        avg == Field(stats, cat \o ".avg_price")
        max == Field(stats, cat \o ".max_price")
        min == Field(stats, cat \o ".min_price")
        RECURSIVE Total(_)
        Total(S) == IF S = {} THEN 0
                    ELSE LET k == CHOOSE x \in S : TRUE
                         IN price(k).n[1] + Total(S \ {k})
        n    == Cardinality(P)
        diff == 100 * n * NumOf(avg) - Total(P) * DenOf(avg)
    IN P # {} =>
         /\ 1000 * diff < 100 * n * DenOf(avg)
         /\ 1000 * (0 - diff) < 100 * n * DenOf(avg)
         /\ \E k \in P : IsPrice(max, price(k).n[1])
         /\ \A k \in P : NumOf(max) * 100 >= price(k).n[1] * DenOf(max)
         /\ \E k \in P : IsPrice(min, price(k).n[1])
         /\ \A k \in P : NumOf(min) * 100 <= price(k).n[1] * DenOf(min)

\* C18: reserve statistics.  A statistics request for a date whose query does
\* not fail is answered 404 when the table holds no row of that date, and
\* otherwise 200 with, per category, the average, maximum and minimum of the
\* prices of that date's rows.
C18_ReserveStatistics ==
    [][ ( /\ resp' # resp
          /\ resp'.ep = "reserve/statistics"
          /\ resp'.error = "none" /\ resp'.status # 400 )
        => \E d \in Dates :
             LET K == {k \in ReserveKeys : DateOf(k) = d /\ store[k].p # 0}
                 SrOf(k)  == sr_price(store[k].p)
                 SupOf(k) == sup_price(store[k].p)
             IN /\ IsIsoDate(resp'.date, d[1], d[2], d[3])
                /\ resp'.arg.v = "2026-02-03" => d = <<2026, 2, 3>>
                /\ resp'.arg.v = "2026-02-04" => d = <<2026, 2, 4>>
                /\ IF K = {} THEN resp'.status = 404 /\ resp'.body = <<>>
                   ELSE /\ resp'.status = 200
                        /\ Len(resp'.body) = 1
                        /\ PricesSummarized(resp'.body[1], "sr", SrOf, K)
                        /\ PricesSummarized(resp'.body[1], "sup", SupOf, K)
      ]_vars

\* Three rows of 2026-02-03 with spinning prices 10, 20 and 20 are summarized
\* as avg 16.6667, max 20 and min 10.
C18_Witness ==
    /\ resp.ep = "reserve/statistics" /\ resp.status = 200
    /\ store["r1"].p = 1 /\ store["r2"].p = 2 /\ store["r3"].p = 2
    /\ Field(resp.body[1], "sr.avg_price").n = <<166667, 10000>>
    /\ Field(resp.body[1], "sr.max_price").n = <<2000, 100>>
    /\ Field(resp.body[1], "sr.min_price").n = <<1000, 100>>

\* C20: the upload path inserts unconditionally.  The rows of table stu change
\* only by a committing upload, which adds exactly one row with its content
\* however many such rows exist; an upload that raised nothing has stored its
\* row and is answered 201 with the submitted data, and an upload that raised
\* has stored no row and is answered 500.
C20_UploadInsertsUnconditionally ==
    [][ /\ stu' # stu =>
             \E t \in Threads :
                /\ op[t] = "upload" /\ commits'[t] = commits[t] + 1
                /\ stu' = [stu EXCEPT ![cur[t].k] = @ + 1]
        /\ \A t \in Threads :
             /\ (op[t] = "upload" /\ commits'[t] = commits[t] + 1)
                   => stu'[cur[t].k] = stu[cur[t].k] + 1
             /\ (op[t] = "upload" /\ pc[t] = "done" /\ pc'[t] = "idle") =>
                   IF exc[t] = "none"
                   THEN /\ commits[t] = 1
                        /\ resp'.status = 201
                        /\ resp'.arg = Sent(cur[t].k)
                        /\ resp'.body = <<SampleRow(cur[t].k)>>
                   ELSE /\ commits[t] = 0
                        /\ resp'.status = 500
      ]_vars

\* Two uploads with the same content were both stored, and the second was
\* answered 201.
C20_Witness ==
    /\ stu["x1"] = 2
    /\ resp.ep = "upload" /\ resp.status = 201 /\ resp.arg.v = "x1"
    /\ \A t \in Threads : pc[t] = "idle"

HasPrefix(path, prefix) ==
    Len(path) >= Len(prefix) /\ SubSeq(path, 1, Len(prefix)) = prefix

\* C21: route registration.  Once module main is loaded the application
\* answers every expected endpoint with its method: 7 GET routes under
\* /api/vpp, 5 GET routes under /api/taipower/reserve, POST /api/upload, GET /
\* and GET /health; and test_routes() returns True with 15 of 15 found.
C21_EveryEndpointRegistered ==
    LET Answers(m, path) ==
            \E n \in 1..Len(app_routes) :
                app_routes[n].path = path /\ m \in app_routes[n].methods
        Under(prefix) ==
            {n \in 1..Len(app_routes) :
                "GET" \in app_routes[n].methods /\ HasPrefix(app_routes[n].path, prefix)}
    IN /\ main_pc = 154 =>
            /\ \A c \in 1..Len(expected_endpoints) :
                 \A e \in 1..Len(expected_endpoints[c]) :
                    Answers(expected_endpoints[c][e][1], expected_endpoints[c][e][2])
            /\ Cardinality(Under(<<"api", "vpp">>)) = 7
            /\ Cardinality(Under(<<"api", "taipower", "reserve">>)) = 5
            /\ Answers("POST", <<"api", "upload">>)
            /\ Answers("GET", <<>>)
            /\ Answers("GET", <<"health">>)
       /\ tr.at = "returned" =>
            tr.result /\ tr.total_found = 15 /\ tr.total_expected = 15

\* test_routes() has returned after finding 15 endpoints and no extra one.
C21_Witness ==
    tr.at = "returned" /\ tr.total_found = 15 /\ tr.extra = <<>>

\* C22: the sliding window of RateLimiter.is_allowed.  For every key, the
\* calls answered True whose timestamps lie within one window are never more
\* than requests_per_minute; and a call answered False leaves the recorded
\* request times as it found them.
C22_SlidingWindowLimit ==
    [][ /\ \A key \in RateKeys : \A w \in 0..MaxTime :
             LET Count[ts \in (w - 1)..MaxTime] ==
                     IF ts < w THEN 0
                     ELSE Count[ts - 1] + (IF ts < w + Window THEN admitted'[key][ts] ELSE 0)
             IN Count[MaxTime] <= MaxPerMinute
        /\ \A t \in Threads :
             (rl[t].at = "check" /\ rl'[t].at = "returned" /\ ~rl'[t].ret)
                => requests' = requests
      ]_vars

\* C23: no connection goes back to the pool inside a transaction.  Whenever
\* execute_query, execute_batch or upload_data has left its with-block and
\* get_db_connection is about to put the connection back, the transaction on
\* it has been committed or rolled back by the code.
C23_NoOpenTransactionReturned ==
    \A t \in Threads : (pc[t] = "putconn" /\ conn[t] # NoConn) => ~inTx[t]

\* C24: a single pool under racing lazy initialization.  However the callers
\* that found db_pool None interleave, at most one pool is ever constructed,
\* every pool constructed is the one the global names, and every connection
\* held was taken from that pool, so that it is put back where it came from.
C24_SinglePoolUnderRace ==
    /\ nPools <= 1
    /\ \A p \in 1..nPools : p = db_pool
    /\ \A t \in Threads : conn[t] # NoConn => conn[t].pool = db_pool

\* C25: use after shutdown.  Once close_db_pool has closed a pool, the global
\* names that closed pool from then on and no pool is constructed any more; a
\* call that begins afterwards goes straight to getconn without initializing,
\* obtains no connection, and ends with the PoolError raised to its caller.
C25_NoReinitAfterClose ==
    [][ /\ closed' # {} => db_pool' \in closed'
        /\ closed # {} => nPools' = nPools /\ db_pool' = db_pool
        /\ \A t \in Threads :
             /\ (closed # {} /\ pc[t] = "idle" /\ pc'[t] # "idle") => pc'[t] = "getconn"
             /\ (closed # {} /\ pc[t] = "getconn" /\ pc'[t] # "getconn") =>
                    /\ conn'[t] = NoConn
                    /\ exc'[t] = "PoolError"
                    /\ pc'[t] = "done"
      ]_vars

\* An execute_query call made after the shutdown hook has raised PoolError.
C25_Witness ==
    /\ lifecycle = "stopped" /\ db_pool # 0 /\ db_pool \in closed
    /\ \E t \in Threads :
          /\ op[t] = "query" /\ pc[t] = "done"
          /\ exc[t] = "PoolError" /\ conn[t] = NoConn
          /\ commits[t] = 0

====
